---- MODULE Spec2Model ----
(***************************************************************************)
(* SkipList<T> (src/include/skip_list.h) over Node<T> (src/include/node.h) *)
(* with T = int.  Nodes live in a heap of shared_ptr-owned records; every  *)
(* list object owns its head sentinel (unique_ptr) and two counters.  The  *)
(* random generator is an input: a call of get_random_level is given the   *)
(* number of leading samples that fall below 0.25.                         *)
(***************************************************************************)
EXTENDS Integers, Sequences, FiniteSets, TLC

VARIABLES nodes, lists, shadow, last, iter, detail

vars == <<nodes, lists, shadow, last, iter, detail>>

----------------------------------------------------------------------------
(* Constants and bounds *)

\* static const std::size_t MAX_LEVEL = 16
MAX_LEVEL == 16

\* element values are 1..MaxVal
MaxVal == 3

\* the runs of samples below 0.25 tried are 0..MaxRun, and two long ones
MaxRun == 1

Values == 1 .. MaxVal

\* the number of calls made in a row on a list that was moved from
MaxCalls == 2

\* a node of up to MaxPerm links is spliced in every order of its levels
MaxPerm == 3

\* where two list objects are at work, element values are 1..MaxVal2
MaxVal2 == 2

Values2 == 1 .. MaxVal2

\* the SkipList objects of the program
Lists == {"a", "b"}

\* numbers of leading samples < 0.25 given to get_random_level: short runs,
\* the run that reaches MAX_LEVEL exactly and one the cap cuts off
Runs == (0 .. MaxRun) \cup {MAX_LEVEL - 1, MAX_LEVEL + 1}

\* where two list objects are at work the generator yields no sample below
\* 0.25 (level 1) or only such samples (level MAX_LEVEL)
RunsAll == {0, MAX_LEVEL + 1}

\* where two list objects are compared the generator yields no sample below
\* 0.25: the comparisons read the level-0 links and num_elements alone
RunsCmp == {0}

\* nullptr
NULL == <<>>

\* head.get(): the raw pointer to the head sentinel of the list operated on
HEAD == <<0>>

\* the tags that tell apart the addresses of nodes holding equal values
Tags == 0 .. Cardinality(Lists)

----------------------------------------------------------------------------
(* Node<T> *)

\* Mutant of Node: the link array is made with level entries, next(level,
\* nullptr), one short of the node's top level.
NodeShort(val, lvl) ==
    [value |-> val, level |-> lvl, next |-> [i \in 0 .. (lvl - 1) |-> NULL]]

\* Node(const T& val, std::size_t lvl): value, level, next(level + 1, nullptr)
Node(val, lvl) ==
    [value |-> val, level |-> lvl, next |-> [i \in 0 .. lvl |-> NULL]]

\* Node(std::size_t _lvl): the dummy node, its value is never set
HeadNode(lvl) ==
    [level |-> lvl, next |-> [i \in 0 .. lvl |-> NULL]]

\* Mutant of EmptyList: the constructor starts current_level at 1, the least
\* level a node can have.
EmptyListLevelOne ==
    [head |-> HeadNode(MAX_LEVEL), current_level |-> 1, num_elements |-> 0]

\* SkipList(): head(make_unique<Node<T>>(MAX_LEVEL)), current_level(0),
\* num_elements(0)
EmptyList ==
    [head |-> HeadNode(MAX_LEVEL), current_level |-> 0, num_elements |-> 0]

\* std::make_shared<Node<T>>: an address no live node has; the address of a
\* node is named by its value and the least tag free for that value
NewAddr(heap, v) ==
    <<v, CHOOSE t \in Tags :
            /\ <<v, t>> \notin DOMAIN heap
            /\ \A u \in 0 .. (t - 1) : <<v, u>> \in DOMAIN heap>>

\* p->next[i], p a raw pointer to a node or to the head of S.list
NextOf(S, p, i) ==
    IF p = HEAD THEN S.list.head.next[i] ELSE S.heap[p].next[i]

\* p->next[i] = q
SetNext(S, p, i, q) ==
    IF p = HEAD
    THEN [S EXCEPT !.list.head.next[i] = q]
    ELSE [S EXCEPT !.heap[p].next[i] = q]

\* p->getValue()
getValue(S, p) == S.heap[p].value

----------------------------------------------------------------------------
(* get_random_level *)

\* Mutant of LevelLoop: the test level < MAX_LEVEL is left out.
RECURSIVE LevelLoopNoCap(_, _, _)
LevelLoopNoCap(level, n, run) ==
    IF n <= run
    THEN LevelLoopNoCap(level + 1, n + 1, run)
    ELSE level

\* while (dis(rng) < 0.25 && level < MAX_LEVEL) ++level; sample number n is
\* below 0.25 iff n <= run
RECURSIVE LevelLoop(_, _, _)
LevelLoop(level, n, run) ==
    IF n <= run /\ level < MAX_LEVEL
    THEN LevelLoop(level + 1, n + 1, run)
    ELSE level

\* Mutant of get_random_level: the level starts at 0.
get_random_levelFromZero(run) == LevelLoop(0, 1, run)

\* std::size_t level = 1; while (...) ++level; return level;
get_random_level(run) == LevelLoop(1, 1, run)

----------------------------------------------------------------------------
(* The predecessor scan *)

\* Mutant of Advance: the scan compares with <= and walks past an equal value.
RECURSIVE AdvanceLeq(_, _, _, _)
AdvanceLeq(S, current, i, value) ==
    LET n == NextOf(S, current, i)
    IN  IF n # NULL
        THEN IF getValue(S, n) <= value
             THEN AdvanceLeq(S, n, i, value)
             ELSE current
        ELSE current

\* Mutant of Advance: an if in place of the while, the scan takes one step
\* at most.
AdvanceOnce(S, current, i, value) ==
    LET n == NextOf(S, current, i)
    IN  IF n # NULL
        THEN IF getValue(S, n) < value THEN n ELSE current
        ELSE current

\* Mutant of Advance: the loop body never runs, the scan stays where it is.
AdvanceStay(S, current, i, value) == current

\* while (current->next[i] != nullptr && current->next[i]->getValue() < value)
\*     current = current->next[i].get();
RECURSIVE Advance(_, _, _, _)
Advance(S, current, i, value) ==
    LET n == NextOf(S, current, i)
    IN  IF n # NULL
        THEN IF getValue(S, n) < value
             THEN Advance(S, n, i, value)
             ELSE current
        ELSE current

\* insert: for (i = current_level + 1; i-- > 0;) { while...; update[i] = current; }
RECURSIVE ScanDown(_, _, _, _, _)
ScanDown(S, current, i, value, update) ==
    LET c == Advance(S, current, i, value)
        u == [update EXCEPT ![i] = c]
    IN  IF i = 0
        THEN [current |-> c, update |-> u]
        ELSE ScanDown(S, c, i - 1, value, u)

\* std::vector<Node<T>*> update(MAX_LEVEL + 1, nullptr)
NoUpdate == [i \in 0 .. MAX_LEVEL |-> NULL]

InsertScan(S, value) ==
    ScanDown(S, HEAD, S.list.current_level, value, NoUpdate)

----------------------------------------------------------------------------
(* insert *)

\* Mutant of Splice: the loop runs while i < new_node_level and leaves the
\* top level of the new node unlinked.
RECURSIVE SpliceShort(_, _, _, _, _)
SpliceShort(S, update, new_node, i, new_node_level) ==
    IF i >= new_node_level
    THEN S
    ELSE LET S1 == SetNext(S, new_node, i, NextOf(S, update[i], i))
             S2 == SetNext(S1, update[i], i, new_node)
         IN  SpliceShort(S2, update, new_node, i + 1, new_node_level)

\* Mutant of SpliceAt: the new node's link is read at index 0 of the
\* predecessor, new_node->next[i] = update[i]->next[0].
SpliceAtBase(S, update, new_node, i) ==
    LET S1 == SetNext(S, new_node, i, NextOf(S, update[i], 0))
    IN  SetNext(S1, update[i], i, new_node)

\* the body of the splice loop, at level i:
\* new_node->next[i] = update[i]->next[i]; update[i]->next[i] = new_node;
SpliceAt(S, update, new_node, i) ==
    LET S1 == SetNext(S, new_node, i, NextOf(S, update[i], i))
    IN  SetNext(S1, update[i], i, new_node)

\* the body of the splice loop run at the levels order[j], order[j + 1], ...
RECURSIVE SpliceIn(_, _, _, _, _)
SpliceIn(S, update, new_node, order, j) ==
    IF j > Len(order)
    THEN S
    ELSE SpliceIn(SpliceAt(S, update, new_node, order[j]), update, new_node,
                  order, j + 1)

\* Mutant of Splice: the two assignments are swapped, so the new node's link
\* is read from the predecessor after that was retargeted to the new node.
RECURSIVE SpliceSwapped(_, _, _, _, _)
SpliceSwapped(S, update, new_node, i, new_node_level) ==
    IF i > new_node_level
    THEN S
    ELSE LET S1 == SetNext(S, update[i], i, new_node)
             S2 == SetNext(S1, new_node, i, NextOf(S1, update[i], i))
         IN  SpliceSwapped(S2, update, new_node, i + 1, new_node_level)

\* for (i = 0; i <= new_node_level; ++i) {
\*     new_node->next[i] = update[i]->next[i]; update[i]->next[i] = new_node; }
RECURSIVE Splice(_, _, _, _, _)
Splice(S, update, new_node, i, new_node_level) ==
    IF i > new_node_level
    THEN S
    ELSE LET S1 == SetNext(S, new_node, i, NextOf(S, update[i], i))
             S2 == SetNext(S1, update[i], i, new_node)
         IN  Splice(S2, update, new_node, i + 1, new_node_level)

\* if (new_node_level > current_level) {
\*     for (i = current_level + 1; i <= new_node_level; ++i) update[i] = head.get();
ExtendUpdate(update, current_level, new_node_level) ==
    [i \in 0 .. MAX_LEVEL |->
        IF current_level < i /\ i <= new_node_level THEN HEAD ELSE update[i]]

\* the duplicate test of insert, the found test of contains and of erase:
\* current->next[0] != nullptr && current->next[0]->getValue() == value
FoundAfter(S, current, value) ==
    LET n == NextOf(S, current, 0)
    IN  IF n # NULL THEN getValue(S, n) = value ELSE FALSE

\* insert of an absent value up to its splice loop: the store with the new
\* node made and current_level raised, the update vector extended, the new
\* node and its level
BeforeSplice(S, value, run) ==
    LET scan == InsertScan(S, value)
        new_node_level == get_random_level(run)
        grow == new_node_level > S.list.current_level
        update == IF grow
                  THEN ExtendUpdate(scan.update, S.list.current_level,
                                    new_node_level)
                  ELSE scan.update
        S1 == IF grow
              THEN [S EXCEPT !.list.current_level = new_node_level]
              ELSE S
        new_node == NewAddr(S.heap, value)
        S2 == [S1 EXCEPT !.heap =
                 [a \in DOMAIN S.heap \cup {new_node} |->
                     IF a = new_node
                     THEN Node(value, new_node_level)
                     ELSE S.heap[a]]]
    IN  [S |-> S2, update |-> update, new_node |-> new_node,
         level |-> new_node_level]

\* Mutant of InsertOp: the level is drawn before the duplicate test.
InsertOpDrawFirst(S, value, run) ==
    LET scan == InsertScan(S, value)
        new_node_level == get_random_level(run)
    IN  IF FoundAfter(S, scan.current, value)
        THEN [S |-> S, drawn |-> TRUE, created |-> NULL]
        ELSE LET grow == new_node_level > S.list.current_level
                 update == IF grow
                           THEN ExtendUpdate(scan.update, S.list.current_level,
                                             new_node_level)
                           ELSE scan.update
                 S1 == IF grow
                       THEN [S EXCEPT !.list.current_level = new_node_level]
                       ELSE S
                 new_node == NewAddr(S.heap, value)
                 S2 == [S1 EXCEPT !.heap =
                          [a \in DOMAIN S.heap \cup {new_node} |->
                              IF a = new_node
                              THEN Node(value, new_node_level)
                              ELSE S.heap[a]]]
                 S3 == Splice(S2, update, new_node, 0, new_node_level)
             IN  [S |-> [S3 EXCEPT !.list.num_elements = @ + 1],
                  drawn |-> TRUE, created |-> new_node]

\* Mutant of InsertOp: current_level = new_node_level is left out.
InsertOpNoRaise(S, value, run) ==
    LET scan == InsertScan(S, value)
    IN  IF FoundAfter(S, scan.current, value)
        THEN [S |-> S, drawn |-> FALSE, created |-> NULL]
        ELSE LET new_node_level == get_random_level(run)
                 grow == new_node_level > S.list.current_level
                 update == IF grow
                           THEN ExtendUpdate(scan.update, S.list.current_level,
                                             new_node_level)
                           ELSE scan.update
                 new_node == NewAddr(S.heap, value)
                 S2 == [S EXCEPT !.heap =
                          [a \in DOMAIN S.heap \cup {new_node} |->
                              IF a = new_node
                              THEN Node(value, new_node_level)
                              ELSE S.heap[a]]]
                 S3 == Splice(S2, update, new_node, 0, new_node_level)
             IN  [S |-> [S3 EXCEPT !.list.num_elements = @ + 1],
                  drawn |-> TRUE, created |-> new_node]

\* void insert(const T& value); run is what the generator would yield.
\* Result: the store after the call, whether a level was drawn, and the
\* address of the node created (NULL if none).
InsertOp(S, value, run) ==
    LET scan == InsertScan(S, value)
    IN  IF FoundAfter(S, scan.current, value)
        THEN [S |-> S, drawn |-> FALSE, created |-> NULL]
        ELSE LET new_node_level == get_random_level(run)
                 grow == new_node_level > S.list.current_level
                 update == IF grow
                           THEN ExtendUpdate(scan.update, S.list.current_level,
                                             new_node_level)
                           ELSE scan.update
                 S1 == IF grow
                       THEN [S EXCEPT !.list.current_level = new_node_level]
                       ELSE S
                 new_node == NewAddr(S.heap, value)
                 S2 == [S1 EXCEPT !.heap =
                          [a \in DOMAIN S.heap \cup {new_node} |->
                              IF a = new_node
                              THEN Node(value, new_node_level)
                              ELSE S.heap[a]]]
                 S3 == Splice(S2, update, new_node, 0, new_node_level)
             IN  [S |-> [S3 EXCEPT !.list.num_elements = @ + 1],
                  drawn |-> TRUE, created |-> new_node]

----------------------------------------------------------------------------
(* contains *)

\* for (level = current_level + 1; level-- > 0;) { while ... }
RECURSIVE ContainsScan(_, _, _, _)
ContainsScan(S, current, level, value) ==
    LET c == Advance(S, current, level, value)
    IN  IF level = 0 THEN c ELSE ContainsScan(S, c, level - 1, value)

\* Mutant of contains: the test looks at the node the scan stopped on, not
\* at its successor.
containsCurrent(S, value) ==
    LET c == ContainsScan(S, HEAD, S.list.current_level, value)
    IN  IF c # HEAD THEN getValue(S, c) = value ELSE FALSE

\* Mutant of contains: the scan runs at level current_level alone and does
\* not come down.
containsTopOnly(S, value) ==
    FoundAfter(S, Advance(S, HEAD, S.list.current_level, value), value)

\* bool contains(const T& value) const
contains(S, value) ==
    FoundAfter(S, ContainsScan(S, HEAD, S.list.current_level, value), value)

----------------------------------------------------------------------------
(* erase *)

\* Mutant of EraseUpper: the loop runs while i > 1 and leaves level 1 to the
\* level-0 loop.
RECURSIVE EraseUpperSkipOne(_, _, _, _, _)
EraseUpperSkipOne(S, current, i, value, update) ==
    IF i > 1
    THEN LET c == Advance(S, current, i, value)
         IN  EraseUpperSkipOne(S, c, i - 1, value, [update EXCEPT ![i] = c])
    ELSE [current |-> current, update |-> update]

\* for (i = current_level; i >= 1; --i) { while...; update[i] = current; }
RECURSIVE EraseUpper(_, _, _, _, _)
EraseUpper(S, current, i, value, update) ==
    IF i >= 1
    THEN LET c == Advance(S, current, i, value)
         IN  EraseUpper(S, c, i - 1, value, [update EXCEPT ![i] = c])
    ELSE [current |-> current, update |-> update]

\* the upper levels, then the level-0 loop and update[0] = current
EraseScan(S, value) ==
    LET up == EraseUpper(S, HEAD, S.list.current_level, value, NoUpdate)
        c == Advance(S, up.current, 0, value)
    IN  [current |-> c, update |-> [up.update EXCEPT ![0] = c]]

\* Mutant of Unlink: only the level-0 link is retargeted.
UnlinkBase(S, update, node_to_delete, i) ==
    IF NextOf(S, update[0], 0) = node_to_delete
    THEN SetNext(S, update[0], 0, NextOf(S, node_to_delete, 0))
    ELSE S

\* the unlink loop of erase with a test on the value in place of the test on
\* identity: if (update[i]->next[i] != nullptr &&
\*               update[i]->next[i]->getValue() == node_to_delete->getValue())
RECURSIVE UnlinkToValue(_, _, _, _)
UnlinkToValue(S, update, node_to_delete, i) ==
    IF i > S.heap[node_to_delete].level
    THEN S
    ELSE LET n == NextOf(S, update[i], i)
             hit == IF n # NULL
                    THEN getValue(S, n) = getValue(S, node_to_delete)
                    ELSE FALSE
             S1 == IF hit
                   THEN SetNext(S, update[i], i, NextOf(S, node_to_delete, i))
                   ELSE S
         IN  UnlinkToValue(S1, update, node_to_delete, i + 1)

\* Mutant of Unlink: the loop starts at i = 1 and leaves the level-0 link to
\* the victim in place.
RECURSIVE UnlinkFromOne(_, _, _, _)
UnlinkFromOne(S, update, node_to_delete, i) ==
    IF i = 0
    THEN UnlinkFromOne(S, update, node_to_delete, 1)
    ELSE IF i > S.heap[node_to_delete].level
    THEN S
    ELSE LET S1 == IF NextOf(S, update[i], i) = node_to_delete
                   THEN SetNext(S, update[i], i, NextOf(S, node_to_delete, i))
                   ELSE S
         IN  UnlinkFromOne(S1, update, node_to_delete, i + 1)

\* Mutant of Unlink: the predecessor's link is cleared, not retargeted to
\* the victim's successor.
RECURSIVE UnlinkToNull(_, _, _, _)
UnlinkToNull(S, update, node_to_delete, i) ==
    IF i > S.heap[node_to_delete].level
    THEN S
    ELSE LET S1 == IF NextOf(S, update[i], i) = node_to_delete
                   THEN SetNext(S, update[i], i, NULL)
                   ELSE S
         IN  UnlinkToNull(S1, update, node_to_delete, i + 1)

\* Mutant of Unlink: the loop runs while i < node_to_delete->level and leaves
\* the link to the victim at its top level in place.
RECURSIVE UnlinkShort(_, _, _, _)
UnlinkShort(S, update, node_to_delete, i) ==
    IF i >= S.heap[node_to_delete].level
    THEN S
    ELSE LET S1 == IF NextOf(S, update[i], i) = node_to_delete
                   THEN SetNext(S, update[i], i, NextOf(S, node_to_delete, i))
                   ELSE S
         IN  UnlinkShort(S1, update, node_to_delete, i + 1)

\* for (i = 0; i <= node_to_delete->level; ++i)
\*     if (update[i]->next[i] == node_to_delete)
\*         update[i]->next[i] = node_to_delete->next[i];
RECURSIVE Unlink(_, _, _, _)
Unlink(S, update, node_to_delete, i) ==
    IF i > S.heap[node_to_delete].level
    THEN S
    ELSE LET S1 == IF NextOf(S, update[i], i) = node_to_delete
                   THEN SetNext(S, update[i], i, NextOf(S, node_to_delete, i))
                   ELSE S
         IN  Unlink(S1, update, node_to_delete, i + 1)

\* Mutant of ShrinkLevel: an if in place of the while, current_level is
\* lowered by one at most.
ShrinkLevelOnce(S) ==
    IF S.list.current_level > 0
       /\ S.list.head.next[S.list.current_level] = NULL
    THEN [S EXCEPT !.list.current_level = @ - 1]
    ELSE S

\* Mutant of ShrinkLevel: current_level is never lowered.
NoShrink(S) == S

\* while (current_level > 0 && head->next[current_level] == nullptr)
\*     current_level--;
RECURSIVE ShrinkLevel(_)
ShrinkLevel(S) ==
    IF S.list.current_level > 0
    THEN IF S.list.head.next[S.list.current_level] = NULL
         THEN ShrinkLevel([S EXCEPT !.list.current_level = @ - 1])
         ELSE S
    ELSE S

\* Mutant of EraseOp: num_elements is not decremented.
EraseOpNoCount(S, value) ==
    LET scan == EraseScan(S, value)
        node_to_delete == NextOf(S, scan.current, 0)
    IN  IF FoundAfter(S, scan.current, value)
        THEN LET S1 == Unlink(S, scan.update, node_to_delete, 0)
             IN  [S |-> ShrinkLevel(S1), res |-> TRUE, victim |-> node_to_delete]
        ELSE [S |-> S, res |-> FALSE, victim |-> NULL]

\* Mutant of EraseOp: the found test is node_to_delete != nullptr alone.
EraseOpAnySucc(S, value) ==
    LET scan == EraseScan(S, value)
        node_to_delete == NextOf(S, scan.current, 0)
    IN  IF node_to_delete # NULL
        THEN LET S1 == Unlink(S, scan.update, node_to_delete, 0)
                 S2 == [S1 EXCEPT !.list.num_elements = @ - 1]
             IN  [S |-> ShrinkLevel(S2), res |-> TRUE, victim |-> node_to_delete]
        ELSE [S |-> S, res |-> FALSE, victim |-> NULL]

\* bool erase(const T& value).  Result: the store after the call, the value
\* returned, and the node the call took out (NULL if none).
EraseOp(S, value) ==
    LET scan == EraseScan(S, value)
        node_to_delete == NextOf(S, scan.current, 0)
    IN  IF FoundAfter(S, scan.current, value)
        THEN LET S1 == Unlink(S, scan.update, node_to_delete, 0)
                 S2 == [S1 EXCEPT !.list.num_elements = @ - 1]
             IN  [S |-> ShrinkLevel(S2), res |-> TRUE, victim |-> node_to_delete]
        ELSE [S |-> S, res |-> FALSE, victim |-> NULL]

----------------------------------------------------------------------------
(* Ownership: a node lives while a shared_ptr holds it *)

\* the non-null links of the head of list L
HeadTargets(L) == {L.head.next[i] : i \in DOMAIN L.head.next} \ {NULL}

\* the links of node a that exist, as a set
LinksOf(heap, a) ==
    {heap[a].next[i] : i \in DOMAIN heap[a].next} \ {NULL}

RECURSIVE Closure(_, _)
Closure(heap, A) ==
    LET B == A \cup UNION {LinksOf(heap, a) : a \in A}
    IN  IF B = A THEN A ELSE Closure(heap, B)

\* the nodes some list still holds, directly or through other nodes
Held(heap, ls) ==
    Closure(heap, UNION {HeadTargets(ls[l]) : l \in DOMAIN ls})

\* ~Node() = default, run by the last shared_ptr that lets go of a node:
\* what is left of the heap once every local pointer is gone
Release(heap, ls) ==
    [a \in Held(heap, ls) |-> heap[a]]

\* the least tag free for value v in heap
LeastTag(heap, v) ==
    CHOOSE t \in Tags :
        /\ <<v, t>> \notin DOMAIN heap
        /\ \A u \in 0 .. (t - 1) : <<v, u>> \in DOMAIN heap

\* Addresses are names.  A node that took the last tag while a node about to
\* be released still held a lower one is renamed to the lowest free tag.
Renamed(heap, a) ==
    IF a # NULL /\ a[2] = Cardinality(Lists)
    THEN <<a[1], LeastTag(heap, a[1])>>
    ELSE a

Settle(heap, ls) ==
    [heap |-> [b \in {Renamed(heap, a) : a \in DOMAIN heap} |->
                 LET a == CHOOSE x \in DOMAIN heap : Renamed(heap, x) = b
                 IN  [heap[a] EXCEPT !.next =
                        [i \in DOMAIN @ |-> Renamed(heap, @[i])]]],
     lists |-> [l \in DOMAIN ls |->
                 [ls[l] EXCEPT !.head.next =
                    [i \in DOMAIN @ |-> Renamed(heap, @[i])]]]]

----------------------------------------------------------------------------
(* Observers *)

\* std::size_t size() const
size(L) == L.num_elements

\* bool empty() const
empty(L) == L.num_elements = 0

\* std::size_t get_current_level() const
get_current_level(L) == L.current_level

\* the store an operation on list l works on
Store(l) == [heap |-> nodes, list |-> lists[l]]

\* the addresses met by following the level-i links from the head of L
RECURSIVE ChainFrom(_, _, _, _)
ChainFrom(heap, p, i, fuel) ==
    IF p = NULL \/ fuel = 0
    THEN <<>>
    ELSE <<p>> \o ChainFrom(heap, heap[p].next[i], i, fuel - 1)

Chain(heap, L, i) ==
    ChainFrom(heap, L.head.next[i], i, Cardinality(DOMAIN heap) + 1)

\* the values met by following the level-0 links from the head of L
Elements(heap, L) ==
    LET c == Chain(heap, L, 0)
    IN  [j \in 1 .. Len(c) |-> heap[c[j]].value]

----------------------------------------------------------------------------
(* Iterators *)

\* iterator begin(): iterator(head->next[0].get())
begin(L) == L.head.next[0]

\* iterator end(): iterator(nullptr)
end == NULL

\* const_iterator begin() const, const_iterator cbegin() const:
\* const_iterator(head->next[0].get())
cbegin(L) == L.head.next[0]

\* const_iterator end() const, const_iterator cend() const:
\* const_iterator(nullptr)
cend == NULL

\* Mutant of const_iterator: the conversion does not take over the pointer,
\* current_node is left null.
const_iteratorNull(other) == NULL

\* const_iterator(const iterator& other) : current_node(other.current_node)
const_iterator(other) == other

\* bool operator==(const iterator&) const and (const const_iterator&) const,
\* of iterator and of const_iterator: current_node == other.current_node
iteratorEq(current_node, other) == current_node = other

\* bool operator!=(const iterator&) const and (const const_iterator&) const,
\* of iterator and of const_iterator: current_node != other.current_node
iteratorNe(current_node, other) == current_node # other

\* Mutant of increment: the step follows the node's top link.
incrementTop(heap, current_node) ==
    IF current_node # NULL
    THEN heap[current_node].next[heap[current_node].level]
    ELSE current_node

\* iterator& operator++(): if (current_node) current_node = current_node->next[0].get()
increment(heap, current_node) ==
    IF current_node # NULL THEN heap[current_node].next[0] ELSE current_node

\* Mutant of operatorStar: no test for a null iterator, a value-initialised
\* T is handed out at end.
operatorStarNoThrow(heap, current_node) ==
    IF current_node = NULL
    THEN [thrown |-> FALSE, value |-> 0]
    ELSE [thrown |-> FALSE, value |-> heap[current_node].value]

\* reference operator*() const, of iterator and of const_iterator:
\* if (!current_node) throw std::out_of_range(...);
\* return current_node->getValue();
\* Result: whether std::out_of_range was thrown, and the value (0: none).
operatorStar(heap, current_node) ==
    IF current_node = NULL
    THEN [thrown |-> TRUE, value |-> 0]
    ELSE [thrown |-> FALSE, value |-> heap[current_node].value]

\* pointer operator->() const, of iterator and of const_iterator:
\* if (!current_node) throw std::out_of_range(...);
\* return &(current_node->getValue());
\* Result: whether std::out_of_range was thrown, and the node whose value
\* the pointer returned points to (NULL: none).
operatorArrow(heap, current_node) ==
    IF current_node = NULL
    THEN [thrown |-> TRUE, node |-> NULL]
    ELSE [thrown |-> FALSE, node |-> current_node]

\* no iterator is in use
NoIter ==
    [active |-> FALSE, l |-> "", cur |-> NULL, visited |-> <<>>, steps |-> 0,
     ret |-> NULL]

----------------------------------------------------------------------------
(* Copy and move *)

\* for (const T& value : other) insert(value); runs[j] is what the generator
\* yields for the j-th element
RECURSIVE CopyLoop(_, _, _, _)
CopyLoop(S, it, j, runs) ==
    IF it = end
    THEN S
    ELSE CopyLoop(InsertOp(S, getValue(S, it), runs[j]).S,
                  increment(S.heap, it), j + 1, runs)

\* Mutant of CopyConstructOp: a shallow copy, the new head takes over the
\* links of other's head, so both lists hold the same nodes.
CopyConstructOpShallow(heap, other, runs) ==
    [heap |-> heap,
     list |-> [head |-> [level |-> MAX_LEVEL, next |-> other.head.next],
               current_level |-> other.current_level,
               num_elements |-> other.num_elements]]

\* SkipList(const SkipList& other) : SkipList() { for ... insert(value); }
\* Result: the store holding the new object.
CopyConstructOp(heap, other, runs) ==
    CopyLoop([heap |-> heap, list |-> EmptyList], begin(other), 1, runs)

\* Mutant of MoveConstructOp: other.current_level is not reset.
MoveConstructOpKeepLevel(other) ==
    [this |-> [head |-> other.head,
               current_level |-> other.current_level,
               num_elements |-> other.num_elements],
     other |-> [head |-> HeadNode(MAX_LEVEL),
                current_level |-> other.current_level,
                num_elements |-> 0]]

\* SkipList(SkipList&& other) noexcept.  Result: the new object and what is
\* left in other.
MoveConstructOp(other) ==
    [this |-> [head |-> other.head,
               current_level |-> other.current_level,
               num_elements |-> other.num_elements],
     other |-> [head |-> HeadNode(MAX_LEVEL),
                current_level |-> 0,
                num_elements |-> 0]]

\* Mutant of CopyAssignOp: num_elements is not swapped with temp's.
CopyAssignOpKeepCount(heap, this, other, runs) ==
    LET T == CopyConstructOp(heap, other, runs)
        temp == T.list
    IN  [S |-> [heap |-> T.heap,
                list |-> [head |-> temp.head,
                          current_level |-> temp.current_level,
                          num_elements |-> this.num_elements]],
         temp |-> [head |-> this.head,
                   current_level |-> this.current_level,
                   num_elements |-> temp.num_elements]]

\* SkipList& operator=(const SkipList& other), this != &other:
\* SkipList temp(other); swap head, current_level, num_elements with temp.
\* Result: the store holding *this, and temp as it goes out of scope.
CopyAssignOp(heap, this, other, runs) ==
    LET T == CopyConstructOp(heap, other, runs)
        temp == T.list
    IN  [S |-> [heap |-> T.heap,
                list |-> [head |-> temp.head,
                          current_level |-> temp.current_level,
                          num_elements |-> temp.num_elements]],
         temp |-> [head |-> this.head,
                   current_level |-> this.current_level,
                   num_elements |-> this.num_elements]]

\* Mutant of MoveAssignOp: other.num_elements is not reset.
MoveAssignOpKeepCount(this, other) ==
    [this |-> [head |-> other.head,
               current_level |-> other.current_level,
               num_elements |-> other.num_elements],
     other |-> [head |-> HeadNode(MAX_LEVEL),
                current_level |-> 0,
                num_elements |-> other.num_elements]]

\* Mutant of MoveAssignOp: other.head is not replaced by a new sentinel, other
\* keeps the links it had.
MoveAssignOpKeepHead(this, other) ==
    [this |-> [head |-> other.head,
               current_level |-> other.current_level,
               num_elements |-> other.num_elements],
     other |-> [head |-> other.head,
                current_level |-> 0,
                num_elements |-> 0]]

\* Mutant of MoveAssignOp: current_level = other.current_level is left out.
MoveAssignOpOwnLevel(this, other) ==
    [this |-> [head |-> other.head,
               current_level |-> this.current_level,
               num_elements |-> other.num_elements],
     other |-> [head |-> HeadNode(MAX_LEVEL),
                current_level |-> 0,
                num_elements |-> 0]]

\* SkipList& operator=(SkipList&& other) noexcept, this != &other:
\* head.reset(); then as the move constructor
MoveAssignOp(this, other) ==
    [this |-> [head |-> other.head,
               current_level |-> other.current_level,
               num_elements |-> other.num_elements],
     other |-> [head |-> HeadNode(MAX_LEVEL),
                current_level |-> 0,
                num_elements |-> 0]]

----------------------------------------------------------------------------
(* Comparison of two lists *)

\* for (; it1 != cend() && it2 != other.cend(); ++it1, ++it2)
\*     if (!(*it1 == *it2)) return false;
\* return true;
RECURSIVE EqLoop(_, _, _)
EqLoop(heap, it1, it2) ==
    IF it1 # end /\ it2 # end
    THEN IF ~(getValue([heap |-> heap], it1) = getValue([heap |-> heap], it2))
         THEN FALSE
         ELSE EqLoop(heap, increment(heap, it1), increment(heap, it2))
    ELSE TRUE

\* Mutant of operatorEq: num_elements is not compared.
operatorEqNoCount(heap, this, other) ==
    EqLoop(heap, begin(this), begin(other))

\* bool operator==(const SkipList& other) const
operatorEq(heap, this, other) ==
    IF this.num_elements # other.num_elements
    THEN FALSE
    ELSE EqLoop(heap, begin(this), begin(other))

\* bool operator!=(const SkipList<T>& other) const; is declared in the class
\* and documented, and defined nowhere: a program that calls it does not
\* link, under C++17 and under C++20 alike (the declared member is chosen
\* before a rewritten ==).  Result: whether there is a function to run; there
\* is no value.
operatorNotEq(heap, this, other) == [defined |-> FALSE]

\* Mutant of LessLoop: the first test is !(*it2 < *it1), so equal values
\* return true.
RECURSIVE LessLoopNotGreater(_, _, _)
LessLoopNotGreater(heap, it1, it2) ==
    IF it1 # end /\ it2 # end
    THEN IF ~(getValue([heap |-> heap], it2) < getValue([heap |-> heap], it1))
         THEN TRUE
         ELSE FALSE
    ELSE it1 = end /\ it2 # end

\* for (; it1 != end1 && it2 != end2; ++it1, ++it2) {
\*     if (*it1 < *it2) return true;
\*     if (*it2 < *it1) return false; }
\* return (it1 == end1 && it2 != end2);
RECURSIVE LessLoop(_, _, _)
LessLoop(heap, it1, it2) ==
    IF it1 # end /\ it2 # end
    THEN IF getValue([heap |-> heap], it1) < getValue([heap |-> heap], it2)
         THEN TRUE
         ELSE IF getValue([heap |-> heap], it2) < getValue([heap |-> heap], it1)
              THEN FALSE
              ELSE LessLoop(heap, increment(heap, it1), increment(heap, it2))
    ELSE it1 = end /\ it2 # end

\* Mutant of operatorLess: the value returned after the loop is it1 == end1.
RECURSIVE LessLoopEnd1(_, _, _)
LessLoopEnd1(heap, it1, it2) ==
    IF it1 # end /\ it2 # end
    THEN IF getValue([heap |-> heap], it1) < getValue([heap |-> heap], it2)
         THEN TRUE
         ELSE IF getValue([heap |-> heap], it2) < getValue([heap |-> heap], it1)
              THEN FALSE
              ELSE LessLoopEnd1(heap, increment(heap, it1), increment(heap, it2))
    ELSE it1 = end

operatorLessEnd1(heap, this, other) ==
    LessLoopEnd1(heap, begin(this), begin(other))

\* bool operator<(const SkipList& other) const
operatorLess(heap, this, other) ==
    LessLoop(heap, begin(this), begin(other))

\* bool operator>(const SkipList& other) const: return other < *this;
operatorGreater(heap, this, other) == operatorLess(heap, other, this)

\* Mutant of operatorLessEq: return !(other > *this);
operatorLessEqSwapped(heap, this, other) == ~operatorGreater(heap, other, this)

\* bool operator<=(const SkipList& other) const: return !(*this > other);
operatorLessEq(heap, this, other) == ~operatorGreater(heap, this, other)

\* bool operator>=(const SkipList& other) const: return !(*this < other);
operatorGreaterEq(heap, this, other) == ~operatorLess(heap, this, other)

----------------------------------------------------------------------------
(* The state and the calls a client makes *)

\* The last call: its name, the list, the other list of a copy or move
\* ("": none), the bool returned, whether a level was drawn; and, where
\* details are logged, the value passed (0: none), the node created or taken
\* out, and current_level before the call.
Call(op, l, src, res, drawn, v, node, lvl) ==
    IF detail
    THEN [op |-> op, l |-> l, src |-> src, res |-> res, drawn |-> drawn,
          v |-> v, node |-> node, lvl |-> lvl]
    ELSE [op |-> op, l |-> l, src |-> src, res |-> res, drawn |-> drawn,
          v |-> 0, node |-> NULL, lvl |-> 0]

NoCall ==
    [op |-> "new", l |-> "", src |-> "", res |-> FALSE, drawn |-> FALSE,
     v |-> 0, node |-> NULL, lvl |-> 0]

Start ==
    /\ nodes = [a \in {} |-> a]
    /\ lists = [l \in Lists |-> EmptyList]
    /\ shadow = [l \in Lists |-> {}]
    /\ last = NoCall
    /\ iter = NoIter

\* one list object at work, call details logged
Init == Start /\ detail = TRUE

\* two list objects at work
InitAll == Start /\ detail = FALSE

\* l.insert(v), the generator yielding a run of `run` samples below 0.25
Insert(l, v, run) ==
    \E r \in {InsertOp(Store(l), v, run)} :
    \E ls \in {[lists EXCEPT ![l] = r.S.list]} :
        /\ lists' = ls
        /\ nodes' = Release(r.S.heap, ls)
        /\ shadow' = [shadow EXCEPT ![l] = @ \cup {v}]
        /\ last' = Call("insert", l, "", FALSE, r.drawn, v, r.created,
                        lists[l].current_level)
        /\ iter' = NoIter
        /\ UNCHANGED detail

\* l.erase(v)
Erase(l, v) ==
    \E r \in {EraseOp(Store(l), v)} :
    \E ls \in {[lists EXCEPT ![l] = r.S.list]} :
        /\ lists' = ls
        /\ nodes' = Release(r.S.heap, ls)
        /\ shadow' = [shadow EXCEPT ![l] = @ \ {v}]
        /\ last' = Call("erase", l, "", r.res, FALSE, v, r.victim,
                        lists[l].current_level)
        /\ iter' = NoIter
        /\ UNCHANGED detail

\* Mutant of Contains: the scan steps current_level itself down, not a local
\* variable, and leaves it at 0.
ContainsLowering(l, v) ==
    /\ last' = Call("contains", l, "", contains(Store(l), v), FALSE, v, NULL,
                    lists[l].current_level)
    /\ lists' = [lists EXCEPT ![l].current_level = 0]
    /\ iter' = NoIter
    /\ UNCHANGED <<nodes, shadow, detail>>

\* l.contains(v): a const member that reads through raw pointers and assigns
\* to locals alone
Contains(l, v) ==
    /\ last' = Call("contains", l, "", contains(Store(l), v), FALSE, v, NULL,
                    lists[l].current_level)
    /\ iter' = NoIter
    /\ UNCHANGED <<nodes, lists, shadow, detail>>

\* it = l.begin()
Begin(l) ==
    /\ iter' = [active |-> TRUE, l |-> l, cur |-> begin(lists[l]),
                visited |-> <<>>, steps |-> 0, ret |-> NULL]
    /\ last' = Call("begin", l, "", FALSE, FALSE, 0, NULL, 0)
    /\ UNCHANGED <<nodes, lists, shadow, detail>>

\* the body of a traversal loop, for (; it != end(); ++it) use(*it)
PreIncrement ==
    /\ iter.active
    /\ iter.cur # end
    /\ iter' = [iter EXCEPT !.visited = Append(@, nodes[iter.cur].value),
                            !.cur = increment(nodes, iter.cur),
                            !.steps = @ + 1,
                            !.ret = increment(nodes, iter.cur)]
    /\ last' = Call("++it", iter.l, "", FALSE, FALSE, 0, NULL, 0)
    /\ UNCHANGED <<nodes, lists, shadow, detail>>

\* the same loop with it++: iterator temp = *this; ++(*this); return temp;
PostIncrement ==
    /\ iter.active
    /\ iter.cur # end
    /\ iter' = [iter EXCEPT !.visited = Append(@, nodes[iter.cur].value),
                            !.cur = increment(nodes, iter.cur),
                            !.steps = @ + 1,
                            !.ret = iter.cur]
    /\ last' = Call("it++", iter.l, "", FALSE, FALSE, 0, NULL, 0)
    /\ UNCHANGED <<nodes, lists, shadow, detail>>

\* ++ on an iterator that is at end leaves it at end
IncrementAtEnd ==
    /\ iter.active
    /\ iter.cur = end
    /\ iter' = [iter EXCEPT !.cur = increment(nodes, iter.cur),
                            !.ret = increment(nodes, iter.cur)]
    /\ last' = Call("++end", iter.l, "", FALSE, FALSE, 0, NULL, 0)
    /\ UNCHANGED <<nodes, lists, shadow, detail>>

\* *it; the bool logged is whether std::out_of_range was thrown
Star ==
    /\ iter.active
    /\ \E r \in {operatorStar(nodes, iter.cur)} :
          last' = Call("*it", iter.l, "", r.thrown, FALSE, r.value, NULL, 0)
    /\ UNCHANGED <<nodes, lists, shadow, iter, detail>>

\* it->; the bool logged is whether std::out_of_range was thrown
Arrow ==
    /\ iter.active
    /\ \E r \in {operatorArrow(nodes, iter.cur)} :
          last' = Call("it->", iter.l, "", r.thrown, FALSE, 0, r.node, 0)
    /\ UNCHANGED <<nodes, lists, shadow, iter, detail>>

\* const_iterator cit = it2; it == cit, where it is the iterator of the
\* traversal and it2 the iterator its last ++ returned (end() before any);
\* the bool logged is the value of the comparison, the node logged is the
\* one cit is on
CompareIterators ==
    /\ iter.active
    /\ \E cit \in {const_iterator(iter.ret)} :
          last' = Call("it==cit", iter.l, "", iteratorEq(iter.cur, cit), FALSE,
                       0, cit, 0)
    /\ UNCHANGED <<nodes, lists, shadow, iter, detail>>

\* dst is destroyed and built anew as SkipList dst(src)
CopyConstruct(dst, src, runs) ==
    /\ dst # src
    /\ \E S \in {CopyConstructOp(
                    Release(nodes, [lists EXCEPT ![dst] = EmptyList]),
                    lists[src], runs)} :
       \E ls \in {[lists EXCEPT ![dst] = S.list]} :
        /\ lists' = ls
        /\ nodes' = Release(S.heap, ls)
        /\ shadow' = [shadow EXCEPT ![dst] = shadow[src]]
        /\ last' = Call("copy", dst, src, FALSE, FALSE, 0, NULL, 0)
        /\ iter' = NoIter
        /\ UNCHANGED detail

\* Mutant of CopyAssign: the test this != &other is left out.
CopyAssignNoSelfTest(dst, src, runs) ==
    \E r \in {CopyAssignOp(nodes, lists[dst], lists[src], runs)} :
    \E ls \in {[lists EXCEPT ![dst] = r.S.list]} :
    \E done \in {Settle(Release(r.S.heap, ls), ls)} :
        /\ lists' = done.lists
        /\ nodes' = done.heap
        /\ shadow' = [shadow EXCEPT ![dst] = shadow[src]]
        /\ last' = Call("copy=", dst, src, FALSE, FALSE, 0, NULL, 0)
        /\ iter' = NoIter
        /\ UNCHANGED detail

\* dst = src
CopyAssign(dst, src, runs) ==
    \E r \in {CopyAssignOp(nodes, lists[dst], lists[src], runs)} :
    \E ls \in {[lists EXCEPT ![dst] = r.S.list]} :
    \E done \in {IF dst # src
                 THEN Settle(Release(r.S.heap, ls), ls)
                 ELSE [heap |-> nodes, lists |-> lists]} :
        /\ lists' = done.lists
        /\ nodes' = done.heap
        /\ shadow' = [shadow EXCEPT ![dst] = shadow[src]]
        /\ last' = Call("copy=", dst, src, FALSE, FALSE, 0, NULL, 0)
        /\ iter' = NoIter
        /\ UNCHANGED detail

\* dst is destroyed and built anew as SkipList dst(std::move(src))
MoveConstruct(dst, src) ==
    /\ dst # src
    /\ \E r \in {MoveConstructOp(lists[src])} :
       \E ls \in {[lists EXCEPT ![dst] = r.this, ![src] = r.other]} :
        /\ lists' = ls
        /\ nodes' = Release(nodes, ls)
        /\ shadow' = [shadow EXCEPT ![dst] = shadow[src], ![src] = {}]
        /\ last' = Call("move", dst, src, FALSE, FALSE, 0, NULL, 0)
        /\ iter' = NoIter
        /\ UNCHANGED detail

\* dst = std::move(src)
MoveAssign(dst, src) ==
    \E r \in {MoveAssignOp(lists[dst], lists[src])} :
    \E ls \in {IF dst # src
               THEN [lists EXCEPT ![dst] = r.this, ![src] = r.other]
               ELSE lists} :
        /\ lists' = ls
        /\ nodes' = Release(nodes, ls)
        /\ shadow' = IF dst # src
                     THEN [shadow EXCEPT ![dst] = shadow[src], ![src] = {}]
                     ELSE shadow
        /\ last' = Call("move=", dst, src, FALSE, FALSE, 0, NULL, 0)
        /\ iter' = NoIter
        /\ UNCHANGED detail

\* the calls on one list object, a
Next ==
    \/ \E v \in Values, run \in Runs : Insert("a", v, run)
    \/ \E v \in Values : Erase("a", v)
    \/ \E v \in Values : Contains("a", v)
    \/ Begin("a")
    \/ PreIncrement
    \/ PostIncrement
    \/ IncrementAtEnd
    \/ Star
    \/ Arrow
    \/ CompareIterators

Spec == Init /\ [][Next]_vars

\* the calls on one list object that scan for a value, no iterator in use
NextScan ==
    \/ \E v \in Values, run \in Runs : Insert("a", v, run)
    \/ \E v \in Values : Erase("a", v)
    \/ \E v \in Values : Contains("a", v)

SpecScan == Init /\ [][NextScan]_vars

\* one list object filled by insert alone: every set of values under every
\* choice of levels is built this way
NextInsert ==
    \E v \in Values, run \in Runs : Insert("a", v, run)

SpecInsert == Init /\ [][NextInsert]_vars

\* the calls on two list objects, with copies and moves between them
NextAll ==
    \/ \E l \in Lists, v \in Values2, run \in RunsAll : Insert(l, v, run)
    \/ \E l \in Lists, v \in Values2 : Erase(l, v)
    \/ \E dst \in Lists, src \in Lists, runs \in [1 .. MaxVal2 -> RunsAll] :
          CopyConstruct(dst, src, runs)
    \/ \E dst \in Lists, src \in Lists, runs \in [1 .. MaxVal2 -> RunsAll] :
          CopyAssign(dst, src, runs)
    \/ \E dst \in Lists, src \in Lists : MoveConstruct(dst, src)
    \/ \E dst \in Lists, src \in Lists : MoveAssign(dst, src)

SpecAll == InitAll /\ [][NextAll]_vars

\* list.insert(seq[1]); list.insert(seq[2]); ... ; runs[j] is what the
\* generator yields for the j-th call
RECURSIVE InsertAll(_, _, _, _)
InsertAll(S, seq, j, runs) ==
    IF j > Len(seq)
    THEN S
    ELSE InsertAll(InsertOp(S, seq[j], runs[j]).S, seq, j + 1, runs)

\* l == m
Equal(l, m) ==
    /\ last' = Call("==", l, m, operatorEq(nodes, lists[l], lists[m]), FALSE,
                    0, NULL, 0)
    /\ iter' = NoIter
    /\ UNCHANGED <<nodes, lists, shadow, detail>>

\* l < m
Less(l, m) ==
    /\ last' = Call("<", l, m, operatorLess(nodes, lists[l], lists[m]), FALSE,
                    0, NULL, 0)
    /\ iter' = NoIter
    /\ UNCHANGED <<nodes, lists, shadow, detail>>

\* l > m
Greater(l, m) ==
    /\ last' = Call(">", l, m, operatorGreater(nodes, lists[l], lists[m]),
                    FALSE, 0, NULL, 0)
    /\ iter' = NoIter
    /\ UNCHANGED <<nodes, lists, shadow, detail>>

\* l <= m
LessEq(l, m) ==
    /\ last' = Call("<=", l, m, operatorLessEq(nodes, lists[l], lists[m]),
                    FALSE, 0, NULL, 0)
    /\ iter' = NoIter
    /\ UNCHANGED <<nodes, lists, shadow, detail>>

\* l >= m
GreaterEq(l, m) ==
    /\ last' = Call(">=", l, m, operatorGreaterEq(nodes, lists[l], lists[m]),
                    FALSE, 0, NULL, 0)
    /\ iter' = NoIter
    /\ UNCHANGED <<nodes, lists, shadow, detail>>

\* two list objects filled and emptied by insert and erase, and compared
NextCmp ==
    \/ \E l \in Lists, v \in Values, run \in RunsCmp : Insert(l, v, run)
    \/ \E l \in Lists, v \in Values : Erase(l, v)
    \/ \E l \in Lists, m \in Lists : Equal(l, m)
    \/ \E l \in Lists, m \in Lists : Less(l, m)
    \/ \E l \in Lists, m \in Lists : Greater(l, m)
    \/ \E l \in Lists, m \in Lists : LessEq(l, m)
    \/ \E l \in Lists, m \in Lists : GreaterEq(l, m)

SpecCmp == InitAll /\ [][NextCmp]_vars

\* two list objects filled by insert alone, in any two orders, and compared
NextOrder ==
    \/ \E l \in Lists, v \in Values, run \in RunsCmp : Insert(l, v, run)
    \/ \E l \in Lists, m \in Lists : Equal(l, m)

SpecOrder == InitAll /\ [][NextOrder]_vars

----------------------------------------------------------------------------
(* What the claims speak of *)

\* the element sequence of list l
ElementsOf(l) == Elements(nodes, lists[l])

\* v is stored in list l
Present(l, v) == \E j \in DOMAIN ElementsOf(l) : ElementsOf(l)[j] = v

\* the level-i lane of list l, as a sequence of nodes
Lane(l, i) == Chain(nodes, lists[l], i)

\* the nodes list l holds
NodesOf(l) == Held(nodes, [x \in {l} |-> lists[l]])

\* the elements of a set of numbers in ascending order
RECURSIVE Ascending(_)
Ascending(A) ==
    IF A = {}
    THEN <<>>
    ELSE LET m == CHOOSE x \in A : \A y \in A : x <= y
         IN  <<m>> \o Ascending(A \ {m})

\* s can be had from t by leaving elements out
RECURSIVE IsSubsequence(_, _)
IsSubsequence(s, t) ==
    IF s = <<>> THEN TRUE
    ELSE IF t = <<>> THEN FALSE
    ELSE IF Head(s) = Head(t) THEN IsSubsequence(Tail(s), Tail(t))
    ELSE IsSubsequence(s, Tail(t))

\* the greatest level of a node of list l, 0 if there is none
TallestOf(l) ==
    LET ks == {nodes[a].level : a \in NodesOf(l)} \cup {0}
    IN  CHOOSE k \in ks : \A j \in ks : j <= k

\* s and t have the same length and equal elements at every position
PairwiseEqual(s, t) ==
    /\ Len(s) = Len(t)
    /\ \A j \in 1 .. Len(s) : s[j] = t[j]

\* s comes before t in the lexicographic order: at the first position k where
\* they differ s has the smaller element, or s ends there and t does not
LexLess(s, t) ==
    \E k \in 1 .. Len(t) :
        /\ k <= Len(s) + 1
        /\ \A j \in 1 .. (k - 1) : s[j] = t[j]
        /\ (k = Len(s) + 1 \/ s[k] < t[k])

\* the orders in which the values of V can be inserted
Orders(V) ==
    {p \in [1 .. Cardinality(V) -> V] :
        \A i \in DOMAIN p, j \in DOMAIN p : i # j => p[i] # p[j]}

\* a heap without nodes
NoNodes == [a \in {} |-> a]

\* the heap after l.insert(v) or l.erase(v) has left the store of l as S
After(l, S) == Release(S.heap, [lists EXCEPT ![l] = S.list])

\* the nodes of list m are in heap h as they are now, links included
NodesKept(m, h) ==
    \A a \in NodesOf(m) : a \in DOMAIN h /\ h[a] = nodes[a]

\* r, the outcome of a move from list src: r.this holds what src holds now,
\* r.other is empty
Moved(r, src) ==
    /\ Elements(nodes, r.this) = ElementsOf(src)
    /\ size(r.this) = size(lists[src])
    /\ size(r.other) = 0
    /\ empty(r.other)
    /\ get_current_level(r.other) = 0
    /\ \A v \in Values2 : ~contains([heap |-> nodes, list |-> r.other], v)

\* the calls a client can make on a list: insert(v), the generator yielding
\* a run, or erase(v)
Calls ==
    [op : {"insert"}, v : Values2, run : RunsAll]
        \cup [op : {"erase"}, v : Values2, run : {0}]

\* what a client and a debugger see of the list of store S, addresses left
\* out: the counters and the values along the links of every level
View(S) ==
    [size |-> size(S.list),
     level |-> get_current_level(S.list),
     lanes |-> [i \in 0 .. MAX_LEVEL |->
                  LET c == Chain(S.heap, S.list, i)
                  IN  [j \in 1 .. Len(c) |-> S.heap[c[j]].value]]]

\* the store after call c on the list of S, the nodes nobody holds any more
\* released; others are the other lists that hold nodes of the heap
CallOn(S, others, c) ==
    LET r == IF c.op = "insert"
             THEN [S |-> InsertOp(S, c.v, c.run).S, res |-> FALSE]
             ELSE LET e == EraseOp(S, c.v) IN [S |-> e.S, res |-> e.res]
        ls == [x \in DOMAIN others \cup {"this"} |->
                  IF x = "this" THEN r.S.list ELSE others[x]]
    IN  [S |-> [heap |-> Release(r.S.heap, ls), list |-> r.S.list],
         res |-> r.res]

\* the calls cs[j], cs[j + 1], ... made one after the other: after each call
\* the value it returned, what contains returns for every value, and the
\* view of the list
RECURSIVE Observe(_, _, _, _)
Observe(S, others, cs, j) ==
    IF j > Len(cs)
    THEN <<>>
    ELSE LET r == CallOn(S, others, cs[j])
         IN  <<[res |-> r.res,
                has |-> [v \in Values2 |-> contains(r.S, v)],
                view |-> View(r.S)]>>
             \o Observe(r.S, others, cs, j + 1)

\* the store the calls cs leave
RECURSIVE StoreAfter(_, _, _, _)
StoreAfter(S, others, cs, j) ==
    IF j > Len(cs)
    THEN S
    ELSE StoreAfter(CallOn(S, others, cs[j]).S, others, cs, j + 1)

\* no other list
Alone == [x \in {} |-> x]

\* the nodes list object L holds in heap
HeldBy(heap, L) == Held(heap, [x \in {"this"} |-> L])

\* The loops, run with a budget of steps.  ok: the loop came to its end
\* within the budget; steps: the times its body ran; current: where it stopped.

\* the while loop of the scan at level i, from current
RECURSIVE AdvanceFuel(_, _, _, _, _)
AdvanceFuel(S, current, i, value, fuel) ==
    LET n == NextOf(S, current, i)
        go == IF n # NULL THEN getValue(S, n) < value ELSE FALSE
    IN  IF ~go
        THEN [ok |-> TRUE, steps |-> 0, current |-> current]
        ELSE IF fuel = 0
             THEN [ok |-> FALSE, steps |-> 0, current |-> current]
             ELSE LET r == AdvanceFuel(S, n, i, value, fuel - 1)
                  IN  [r EXCEPT !.steps = @ + 1]

\* the scan of insert, contains and erase from level i down to level 0
RECURSIVE ScanFuel(_, _, _, _, _)
ScanFuel(S, current, i, value, fuel) ==
    LET r == AdvanceFuel(S, current, i, value, fuel)
    IN  IF ~r.ok \/ i = 0
        THEN r
        ELSE LET d == ScanFuel(S, r.current, i - 1, value, fuel)
             IN  [d EXCEPT !.steps = @ + r.steps]

\* for (it = from; it != end(); ++it)
RECURSIVE WalkFuel(_, _, _)
WalkFuel(heap, it, fuel) ==
    IF it = end
    THEN [ok |-> TRUE, steps |-> 0]
    ELSE IF fuel = 0
         THEN [ok |-> FALSE, steps |-> 0]
         ELSE LET r == WalkFuel(heap, increment(heap, it), fuel - 1)
              IN  [r EXCEPT !.steps = @ + 1]

\* for (; it1 != end1 && it2 != end2; ++it1, ++it2), no return on the way
RECURSIVE PairFuel(_, _, _, _)
PairFuel(heap, it1, it2, fuel) ==
    IF it1 = end \/ it2 = end
    THEN [ok |-> TRUE, steps |-> 0]
    ELSE IF fuel = 0
         THEN [ok |-> FALSE, steps |-> 0]
         ELSE LET r == PairFuel(heap, increment(heap, it1),
                                increment(heap, it2), fuel - 1)
              IN  [r EXCEPT !.steps = @ + 1]

\* the position k increments lead to from it
RECURSIVE Advanced(_, _, _)
Advanced(heap, it, k) ==
    IF k = 0 THEN it ELSE Advanced(heap, increment(heap, it), k - 1)

\* the last node on the level-i lane of list l whose value is below t, the
\* head if there is none
LastBelow(l, i, t) ==
    LET c == Lane(l, i)
        J == {j \in DOMAIN c : nodes[c[j]].value < t}
    IN  IF J = {}
        THEN HEAD
        ELSE c[CHOOSE j \in J : \A k \in J : k <= j]

\* the first node of list l whose value is t or more, NULL if there is none
FirstAtLeast(l, t) ==
    LET c == Lane(l, 0)
        J == {j \in DOMAIN c : nodes[c[j]].value >= t}
    IN  IF J = {}
        THEN NULL
        ELSE c[CHOOSE j \in J : \A k \in J : j <= k]

\* the levels at which p, a node of heap or the head, has a link
LevelsOf(heap, p) ==
    IF p = HEAD THEN 0 .. MAX_LEVEL ELSE 0 .. heap[p].level

\* the orders in which the levels 0..L of a new node are spliced: every
\* order if the levels are few; else the ascending and the descending order,
\* every order that starts at a level k, goes up to L and then from 0 to
\* k - 1, and every order that exchanges two neighbours of the ascending
\* order
SpliceOrders(L) ==
    IF L + 1 <= MaxPerm
    THEN {[j \in 1 .. (L + 1) |-> p[j] - 1] : p \in Orders(1 .. (L + 1))}
    ELSE {[j \in 1 .. (L + 1) |-> L + 1 - j]}
         \cup {[j \in 1 .. (L + 1) |-> (k + j - 1) % (L + 1)] : k \in 0 .. L}
         \cup {[j \in 1 .. (L + 1) |->
                  IF j - 1 = x THEN x + 1 ELSE IF j - 1 = x + 1 THEN x
                  ELSE j - 1] :
               x \in 0 .. (L - 1)}

\* for every level a run of Runs yields, the shortest run that yields it
LevelRuns ==
    {run \in Runs :
        \A r \in Runs :
            get_random_level(r) = get_random_level(run) => run <= r}

\* p->next[i] is an access within bounds: p is the head or a live node, and
\* i is an index of its link array
InRange(S, p, i) ==
    IF p = HEAD
    THEN i \in DOMAIN S.list.head.next
    ELSE IF p \in DOMAIN S.heap THEN i \in DOMAIN S.heap[p].next ELSE FALSE

\* the while loop of the scan at level i, every access tested before it is
\* made.  ok: every access was within bounds
RECURSIVE AdvanceSafe(_, _, _, _)
AdvanceSafe(S, current, i, value) ==
    IF ~InRange(S, current, i)
    THEN [ok |-> FALSE, current |-> current]
    ELSE LET n == NextOf(S, current, i)
         IN  IF n = NULL
             THEN [ok |-> TRUE, current |-> current]
             ELSE IF n \notin DOMAIN S.heap
             THEN [ok |-> FALSE, current |-> current]
             ELSE IF getValue(S, n) < value
             THEN AdvanceSafe(S, n, i, value)
             ELSE [ok |-> TRUE, current |-> current]

\* the scan from level i down to level 0, update[i] = current after each
RECURSIVE ScanSafe(_, _, _, _, _)
ScanSafe(S, current, i, value, update) ==
    LET r == AdvanceSafe(S, current, i, value)
        u == [update EXCEPT ![i] = r.current]
    IN  IF ~r.ok
        THEN [ok |-> FALSE, current |-> r.current, update |-> u]
        ELSE IF i = 0
        THEN [ok |-> TRUE, current |-> r.current, update |-> u]
        ELSE ScanSafe(S, r.current, i - 1, value, u)

\* the values i takes in for (std::size_t i = from; i >= 1; --i), the one
\* that ends the loop included
RECURSIVE Countdown(_)
Countdown(i) == IF i >= 1 THEN <<i>> \o Countdown(i - 1) ELSE <<i>>

\* what a client can observe of the list of store S: size(), the sequence a
\* traversal yields, and what contains returns for every value
Seen(S) ==
    [size |-> size(S.list),
     elements |-> Elements(S.heap, S.list),
     has |-> [v \in Values2 |-> contains(S, v)]]

\* the calls a client can make, the level draws left open
Shapes == [op : {"insert", "erase", "contains"}, v : Values2]

\* the calls cs[j], cs[j + 1], ... made one after the other on the list of S,
\* the generator yielding runs[j] for the j-th: after each call the value it
\* returned (FALSE for insert, which returns none) and what the client can
\* observe
RECURSIVE Trace(_, _, _, _, _)
Trace(S, others, cs, runs, j) ==
    IF j > Len(cs)
    THEN <<>>
    ELSE LET r == IF cs[j].op = "contains"
                  THEN [S |-> S, res |-> contains(S, cs[j].v)]
                  ELSE CallOn(S, others,
                              [op |-> cs[j].op, v |-> cs[j].v,
                               run |-> runs[j]])
         IN  <<[res |-> r.res, seen |-> Seen(r.S)]>>
             \o Trace(r.S, others, cs, runs, j + 1)

\* the other lists, as CallOn takes them
Others(l) == [m \in Lists \ {l} |-> lists[m]]

\* for (std::size_t i = 0; i <= node_to_delete->level; ++i)
\*     if (update[i]->next[i] == node_to_delete) ...
\* the values the test takes as the loop runs, level by level, each read
\* from the store the earlier iterations left; FALSE where update[i] is null
\* or i is no index of its links
RECURSIVE UnlinkGuards(_, _, _, _)
UnlinkGuards(S, update, node_to_delete, i) ==
    IF i > S.heap[node_to_delete].level
    THEN <<>>
    ELSE LET ok == /\ update[i] # NULL
                   /\ InRange(S, update[i], i)
             g == IF ok THEN NextOf(S, update[i], i) = node_to_delete ELSE FALSE
             S1 == IF g
                   THEN SetNext(S, update[i], i, NextOf(S, node_to_delete, i))
                   ELSE S
         IN  <<g>> \o UnlinkGuards(S1, update, node_to_delete, i + 1)

\* the lesser of two numbers
Min(x, y) == IF x <= y THEN x ELSE y

----------------------------------------------------------------------------
(* Claims *)

\* C1: after any sequence of insert and erase calls, with any drawn levels,
\* the values met along the level-0 links from the head are strictly
\* increasing, so no value is stored twice.
C1_StrictlyIncreasing ==
    \A l \in Lists :
        \A j \in 1 .. (Len(ElementsOf(l)) - 1) :
            ElementsOf(l)[j] < ElementsOf(l)[j + 1]

\* the least value was inserted last, in front of all the others
C1_Witness ==
    /\ last.op = "insert" /\ last.drawn /\ last.v = 1
    /\ Len(ElementsOf("a")) = MaxVal

\* C2: contains(v) is true iff v was inserted and not erased since: contains
\* agrees with a mathematical set driven by the same calls, in every state
\* and in the value each call returned.
C2_ContainsIsMembership ==
    /\ \A l \in Lists, v \in Values :
          contains(Store(l), v) <=> (v \in shadow[l])
    /\ last.op = "contains" => (last.res <=> (last.v \in shadow[last.l]))

\* a contains call found the middle one of three elements
C2_Witness ==
    /\ last.op = "contains" /\ last.res /\ last.v = 2
    /\ Cardinality(shadow["a"]) = MaxVal

\* C3: when v is present, erase(v) returns true, and afterwards contains(v)
\* is false, size() is one less, and the other elements are all there in the
\* same order.
C3_ErasePresent ==
    /\ \A l \in Lists, v \in Values :
          Present(l, v) =>
             LET r == EraseOp(Store(l), v)
             IN  /\ r.res = TRUE
                 /\ ~contains(r.S, v)
                 /\ size(r.S.list) = size(lists[l]) - 1
                 /\ Elements(r.S.heap, r.S.list) =
                       SelectSeq(ElementsOf(l), LAMBDA x : x # v)
    /\ (last.op = "erase" /\ last.res) =>
          /\ ~contains(Store(last.l), last.v)
          /\ ~Present(last.l, last.v)

\* the middle one of three elements was erased
C3_Witness ==
    /\ last.op = "erase" /\ last.res /\ last.v = 2
    /\ ElementsOf("a") = <<1, 3>>

\* C4: when v is not present (also on an empty list), erase(v) returns false
\* and leaves size(), the elements, current_level and every link unchanged.
C4_EraseAbsent ==
    \A l \in Lists, v \in Values :
        ~Present(l, v) =>
           LET r == EraseOp(Store(l), v)
           IN  /\ r.res = FALSE
               /\ r.S = Store(l)
               /\ r.victim = NULL

\* an erase of a value that lies between two stored values returned false
C4_Witness ==
    /\ last.op = "erase" /\ ~last.res /\ last.v = 2
    /\ ElementsOf("a") = <<1, 3>>

\* C5: insert(v) with v present is a no-op: size(), the elements,
\* current_level and every link stay as they are, no node is created and no
\* level is drawn.
C5_InsertDuplicate ==
    \A l \in Lists, v \in Values, run \in Runs :
        Present(l, v) =>
           LET r == InsertOp(Store(l), v, run)
           IN  /\ r.S = Store(l)
               /\ ~r.drawn
               /\ r.created = NULL

\* an insert of a stored value drew no level and made no node
C5_Witness ==
    /\ last.op = "insert" /\ ~last.drawn /\ last.node = NULL
    /\ Present("a", last.v)
    /\ Len(ElementsOf("a")) = 2

\* C6: after any sequence of insert, erase, copy and move calls, size()
\* equals the number of nodes on the level-0 lane, which equals the number of
\* distinct values inserted and not erased since.
C6_SizeIsCount ==
    \A l \in Lists :
        /\ size(lists[l]) = Len(Lane(l, 0))
        /\ size(lists[l]) = Cardinality(shadow[l])

\* a move assignment handed over two elements
C6_Witness ==
    /\ last.op = "move=" /\ last.l # last.src
    /\ size(lists[last.l]) = MaxVal2
    /\ size(lists[last.src]) = 0

\* C7: current_level is the greatest level of a node in the list, 0 if the
\* list is empty; an erase that takes out the only tallest node lowers it to
\* the level of the tallest node left.
C7_CurrentLevelIsTallest ==
    \A l \in Lists : get_current_level(lists[l]) = TallestOf(l)

\* an erase lowered current_level to the level of a node that is left
C7_Witness ==
    /\ last.op = "erase" /\ last.res
    /\ get_current_level(lists["a"]) < last.lvl
    /\ get_current_level(lists["a"]) > 0

\* C8: for every level i <= current_level the nodes linked at level i from
\* the head are a subsequence of the level-0 lane.
C8_LanesAreSubsequences ==
    \A l \in Lists :
        \A i \in 0 .. get_current_level(lists[l]) :
            IsSubsequence(Lane(l, i), Lane(l, 0))

\* an upper lane that holds some, not all, of three nodes
C8_Witness ==
    /\ last.op \in {"insert", "erase"}
    /\ Len(Lane("a", 0)) = MaxVal
    /\ \E i \in 1 .. get_current_level(lists["a"]) :
          /\ Len(Lane("a", i)) > 0
          /\ Len(Lane("a", i)) < Len(Lane("a", 0))

\* C9: every node of level k is linked into the list at each level 0..k,
\* reachable from the head along that level, and at no level above k.
C9_NodeOnItsLanes ==
    \A l \in Lists :
        \A a \in NodesOf(l) :
            \A i \in 0 .. MAX_LEVEL :
                (\E j \in DOMAIN Lane(l, i) : Lane(l, i)[j] = a)
                    <=> (i <= nodes[a].level)

\* a node of level 2 was inserted next to a node of level MAX_LEVEL
C9_Witness ==
    /\ last.op = "insert" /\ last.drawn
    /\ nodes[last.node].level = 2
    /\ \E a \in NodesOf("a") : nodes[a].level = MAX_LEVEL

\* C10: from begin(), ++ visits every stored element once, in ascending
\* order, and reaches end() after exactly size() increments; it++ returns
\* the position before the step; every traversal, a restarted one too,
\* yields the same sequence.
C10_Traversal ==
    iter.active =>
       LET E == Ascending(shadow[iter.l])
       IN  /\ iter.steps <= Len(E)
           /\ iter.visited = SubSeq(E, 1, iter.steps)
           /\ (iter.cur = end) <=> (iter.steps = size(lists[iter.l]))
           /\ iter.cur # end => nodes[iter.cur].value = E[iter.steps + 1]
           /\ last.op = "it++" =>
                 /\ iter.ret # end
                 /\ nodes[iter.ret].value = E[iter.steps]
                 /\ increment(nodes, iter.ret) = iter.cur
           /\ last.op = "++it" => iter.ret = iter.cur

\* a traversal of three elements has reached end() by it++
C10_Witness ==
    /\ iter.active /\ iter.cur = end /\ iter.steps = MaxVal
    /\ last.op = "it++"

\* C11: for any two lists a and b, a == b is true iff they have the same
\* number of elements and their elements are pairwise equal in iteration
\* order; so is the value every == call returned.
C11_EqualityIsPairwise ==
    /\ \A l \in Lists, m \in Lists :
          operatorEq(nodes, lists[l], lists[m])
             <=> PairwiseEqual(ElementsOf(l), ElementsOf(m))
    /\ last.op = "==" =>
          (last.res <=> PairwiseEqual(ElementsOf(last.l), ElementsOf(last.src)))

\* == returned false for two lists of equal size that differ in their second
\* element
C11_Witness ==
    /\ last.op = "==" /\ ~last.res
    /\ ElementsOf(last.l) = <<1, 2>>
    /\ ElementsOf(last.src) = <<1, 3>>

\* C12: a < b is the lexicographic comparison of the two ascending element
\* sequences: true if a has the smaller value at the first position where
\* they differ, true if a is a proper prefix of b, false otherwise, also when
\* the sequences are identical or b is a proper prefix of a.
C12_LessIsLexicographic ==
    /\ \A l \in Lists, m \in Lists :
          /\ operatorLess(nodes, lists[l], lists[m])
                <=> LexLess(ElementsOf(l), ElementsOf(m))
          /\ ElementsOf(l) = ElementsOf(m)
                => ~operatorLess(nodes, lists[l], lists[m])
          /\ (/\ Len(ElementsOf(m)) < Len(ElementsOf(l))
              /\ ElementsOf(m) = SubSeq(ElementsOf(l), 1, Len(ElementsOf(m))))
                => ~operatorLess(nodes, lists[l], lists[m])
    /\ last.op = "<" =>
          (last.res <=> LexLess(ElementsOf(last.l), ElementsOf(last.src)))

\* < returned true for a list whose second element is the smaller one, though
\* it is the longer list
C12_Witness ==
    /\ last.op = "<" /\ last.res
    /\ ElementsOf(last.l) = <<1, 2, 3>>
    /\ ElementsOf(last.src) = <<1, 3>>

\* C13: a > b iff b < a; a <= b iff not (b < a); a >= b iff not (a < b); two
\* lists with identical contents satisfy both a <= b and a >= b.
C13_DerivedComparisons ==
    /\ \A l \in Lists, m \in Lists :
          /\ operatorGreater(nodes, lists[l], lists[m])
                <=> operatorLess(nodes, lists[m], lists[l])
          /\ operatorLessEq(nodes, lists[l], lists[m])
                <=> ~operatorLess(nodes, lists[m], lists[l])
          /\ operatorGreaterEq(nodes, lists[l], lists[m])
                <=> ~operatorLess(nodes, lists[l], lists[m])
          /\ ElementsOf(l) = ElementsOf(m) =>
                /\ operatorLessEq(nodes, lists[l], lists[m])
                /\ operatorGreaterEq(nodes, lists[l], lists[m])
    /\ last.op = ">" =>
          (last.res <=> LexLess(ElementsOf(last.src), ElementsOf(last.l)))
    /\ last.op = "<=" =>
          (last.res <=> ~LexLess(ElementsOf(last.src), ElementsOf(last.l)))
    /\ last.op = ">=" =>
          (last.res <=> ~LexLess(ElementsOf(last.l), ElementsOf(last.src)))

\* <= returned true for two list objects with the same three elements
C13_Witness ==
    /\ last.op = "<=" /\ last.res /\ last.l # last.src
    /\ ElementsOf(last.l) = ElementsOf(last.src)
    /\ Len(ElementsOf(last.l)) = MaxVal

\* C14: two lists into which the same set of values is inserted, in any two
\* orders and with any drawn levels, compare equal with ==.  Two lists that
\* were filled with the same set compare equal in every state, whatever the
\* order of the insert calls was; and for the set V that list a, filled
\* first, and list b hold when a == b is called, two new lists filled with V
\* in any two orders, each node with any of the levels 1 and MAX_LEVEL,
\* compare equal and hold the elements of a.
C14_EqualWhateverTheOrder ==
    /\ \A l \in Lists, m \in Lists :
          shadow[l] = shadow[m] => operatorEq(nodes, lists[l], lists[m])
    /\ (last.op = "==" /\ last.l = "a" /\ last.src = "b"
           /\ shadow["a"] = shadow["b"]
           /\ \A x \in NodesOf("a") : x[2] = 0) =>
          /\ last.res
          /\ \A p \in Orders(shadow["a"]) : \A r1 \in [DOMAIN p -> RunsAll] :
                LET A == InsertAll([heap |-> NoNodes, list |-> EmptyList],
                                   p, 1, r1)
                IN  /\ Elements(A.heap, A.list) = ElementsOf("a")
                    /\ \A q \in Orders(shadow["a"]) :
                       \A r2 \in [DOMAIN q -> RunsAll] :
                          LET B == InsertAll([heap |-> A.heap,
                                              list |-> EmptyList], q, 1, r2)
                          IN  /\ operatorEq(B.heap, A.list, B.list)
                              /\ operatorEq(B.heap, B.list, A.list)

\* == returned true for two list objects that hold the same three values,
\* list a filled before list b
C14_Witness ==
    /\ last.op = "==" /\ last.res /\ last.l = "a" /\ last.src = "b"
    /\ shadow["a"] = Values /\ shadow["b"] = Values
    /\ \A x \in NodesOf("a") : x[2] = 0
    /\ \A x \in NodesOf("b") : x[2] = 1

\* C15: after copy construction or copy assignment the copy and the source
\* share no nodes, and any later insert or erase on one of them leaves the
\* other's size, elements and links unchanged.  In every state reached by
\* insert, erase, copy and move calls the two lists have no node in common,
\* and whatever insert or erase call comes next on one list, the nodes of
\* the other stay in the heap as they are; that call writes the head and the
\* counters of its own list only.
C15_CopyIndependence ==
    \A l \in Lists, m \in Lists :
        l # m =>
           /\ NodesOf(l) \cap NodesOf(m) = {}
           /\ \A v \in Values2 :
                 /\ \A run \in RunsAll :
                       LET S == InsertOp(Store(l), v, run).S
                       IN  /\ NodesKept(m, After(l, S))
                           /\ Elements(After(l, S), lists[m]) = ElementsOf(m)
                 /\ LET S == EraseOp(Store(l), v).S
                    IN  /\ NodesKept(m, After(l, S))
                        /\ Elements(After(l, S), lists[m]) = ElementsOf(m)

\* a copy constructor has made a copy of two elements whose nodes are not
\* the source's and have other levels
C15_Witness ==
    /\ last.op = "copy" /\ last.l # last.src
    /\ ElementsOf(last.l) = ElementsOf(last.src)
    /\ Len(ElementsOf(last.l)) = MaxVal2
    /\ NodesOf(last.l) \cap NodesOf(last.src) = {}
    /\ \A a \in NodesOf(last.l) : nodes[a].level = 1
    /\ \A a \in NodesOf(last.src) : nodes[a].level = MAX_LEVEL

\* C16: copy construction and copy assignment from a distinct source leave
\* the target holding exactly the source's elements (target == source, same
\* size()), whatever the target held before, an empty source assigned to a
\* non-empty target included, and leave the source unchanged.
C16_CopyIsExact ==
    /\ \A dst \in Lists, src \in Lists :
          dst # src =>
             \A runs \in [1 .. MaxVal2 -> RunsAll] :
                /\ LET S == CopyAssignOp(nodes, lists[dst], lists[src], runs).S
                   IN  /\ operatorEq(S.heap, S.list, lists[src])
                       /\ size(S.list) = size(lists[src])
                       /\ Elements(S.heap, S.list) = ElementsOf(src)
                       /\ NodesKept(src, S.heap)
                       /\ Elements(S.heap, lists[src]) = ElementsOf(src)
                /\ LET S == CopyConstructOp(nodes, lists[src], runs)
                   IN  /\ operatorEq(S.heap, S.list, lists[src])
                       /\ size(S.list) = size(lists[src])
                       /\ Elements(S.heap, S.list) = ElementsOf(src)
                       /\ NodesKept(src, S.heap)
                       /\ Elements(S.heap, lists[src]) = ElementsOf(src)
    /\ (last.op \in {"copy", "copy="} /\ last.l # last.src) =>
          /\ operatorEq(nodes, lists[last.l], lists[last.src])
          /\ size(lists[last.l]) = size(lists[last.src])
          /\ ElementsOf(last.l) = ElementsOf(last.src)
          /\ ElementsOf(last.src) = Ascending(shadow[last.src])

\* a copy assignment has given its target the two elements of the source, in
\* nodes of level MAX_LEVEL where the source's have level 1
C16_Witness ==
    /\ last.op = "copy=" /\ last.l # last.src
    /\ Len(ElementsOf(last.src)) = MaxVal2
    /\ operatorEq(nodes, lists[last.l], lists[last.src])
    /\ \A a \in NodesOf(last.l) : nodes[a].level = MAX_LEVEL
    /\ \A a \in NodesOf(last.src) : nodes[a].level = 1

\* C17: after move construction or move assignment from a distinct source
\* the destination holds exactly the elements and the size the source had
\* before, and the source has size() == 0, empty() == true, current_level ==
\* 0 and contains(v) == false for every v.
C17_MoveTransfers ==
    /\ \A dst \in Lists, src \in Lists :
          dst # src =>
             /\ Moved(MoveConstructOp(lists[src]), src)
             /\ Moved(MoveAssignOp(lists[dst], lists[src]), src)
    /\ (last.op \in {"move", "move="} /\ last.l # last.src) =>
          /\ ElementsOf(last.l) = Ascending(shadow[last.l])
          /\ size(lists[last.l]) = Cardinality(shadow[last.l])
          /\ size(lists[last.src]) = 0
          /\ empty(lists[last.src])
          /\ get_current_level(lists[last.src]) = 0
          /\ \A v \in Values2 : ~contains(Store(last.src), v)

\* a move constructor has taken two elements, one in a node of level
\* MAX_LEVEL, out of its source
C17_Witness ==
    /\ last.op = "move" /\ last.l # last.src
    /\ Len(ElementsOf(last.l)) = MaxVal2
    /\ get_current_level(lists[last.l]) = MAX_LEVEL
    /\ get_current_level(lists[last.src]) = 0
    /\ empty(lists[last.src])

\* C18: a moved-from list is a valid fresh empty instance.  Right after a
\* move it is what SkipList() constructs; any MaxCalls insert and erase calls
\* on it return, and leave to contains and at every level, what they do on a
\* newly constructed list, and leave the nodes of the move destination as
\* they are; the destination keeps working: insert of a value it does not
\* hold adds the element and raises size() by one.  The structural
\* invariants (C1, C6 to C9) hold in every state, after a move and after the
\* calls that follow it.
C18_MovedFromIsFresh ==
    /\ C1_StrictlyIncreasing
    /\ C6_SizeIsCount
    /\ C7_CurrentLevelIsTallest
    /\ C8_LanesAreSubsequences
    /\ C9_NodeOnItsLanes
    /\ (last.op \in {"move", "move="} /\ last.l # last.src) =>
          /\ lists[last.src] = EmptyList
          /\ \A cs \in [1 .. MaxCalls -> Calls] :
                LET others == [x \in {last.l} |-> lists[last.l]]
                IN  /\ Observe(Store(last.src), others, cs, 1) =
                          Observe([heap |-> NoNodes, list |-> EmptyList],
                                  Alone, cs, 1)
                    /\ NodesKept(last.l,
                                 StoreAfter(Store(last.src), others, cs, 1).heap)
          /\ \A v \in Values2 \ shadow[last.l], run \in RunsAll :
                LET S == InsertOp(Store(last.l), v, run).S
                IN  /\ size(S.list) = size(lists[last.l]) + 1
                    /\ contains(S, v)
                    /\ Elements(S.heap, S.list) =
                          Ascending(shadow[last.l] \cup {v})

\* a move assignment has left its source empty and its destination with one
\* element, so that an insert into either adds an element
C18_Witness ==
    /\ last.op = "move=" /\ last.l # last.src
    /\ lists[last.src] = EmptyList
    /\ Len(ElementsOf(last.l)) = 1
    /\ get_current_level(lists[last.l]) = MAX_LEVEL

\* C19: self copy-assignment (list = list) and self move-assignment
\* (list = std::move(list)) leave the list's size(), elements, current_level
\* and links unchanged: a step that is such a call changes neither a list
\* object nor a node.
C19_SelfAssignment ==
    [][(last'.op \in {"copy=", "move="} /\ last'.l = last'.src)
          => (lists' = lists /\ nodes' = nodes)]_vars

\* a list of two elements, one in a node of level MAX_LEVEL, was move-assigned
\* to itself and holds them still
C19_Witness ==
    /\ last.op = "move=" /\ last.l = last.src
    /\ Len(ElementsOf(last.l)) = MaxVal2
    /\ size(lists[last.l]) = MaxVal2
    /\ get_current_level(lists[last.l]) = MAX_LEVEL

\* C20: dereferencing (operator* or operator->) an iterator or const_iterator
\* that is at end, begin() of an empty list included, signals
\* std::out_of_range and returns no value; dereferencing an iterator that is
\* on a stored node returns that node's value and never signals.
C20_DereferenceAtEnd ==
    /\ operatorStar(nodes, end).thrown
    /\ operatorArrow(nodes, end).thrown
    /\ \A l \in Lists :
          empty(lists[l]) =>
             /\ operatorStar(nodes, begin(lists[l])).thrown
             /\ operatorArrow(nodes, begin(lists[l])).thrown
    /\ iter.active =>
          /\ operatorStar(nodes, iter.cur).thrown <=> (iter.cur = end)
          /\ operatorArrow(nodes, iter.cur).thrown <=> (iter.cur = end)
          /\ iter.cur # end =>
                /\ operatorStar(nodes, iter.cur).value =
                      Ascending(shadow[iter.l])[iter.steps + 1]
                /\ operatorArrow(nodes, iter.cur).node = iter.cur
          /\ last.op = "*it" =>
                /\ last.res <=> (iter.cur = end)
                /\ ~last.res => last.v = getValue(Store(iter.l), iter.cur)
          /\ last.op = "it->" =>
                /\ last.res <=> (iter.cur = end)
                /\ ~last.res => last.node = iter.cur

\* begin() of an empty list was dereferenced and std::out_of_range thrown
C20_Witness ==
    /\ last.op = "*it" /\ last.res
    /\ iter.active /\ iter.steps = 0 /\ iter.cur = begin(lists[iter.l])
    /\ empty(lists[iter.l])

\* C21: get_random_level returns a level L with 1 <= L <= MAX_LEVEL whatever
\* the samples are, also when every sample is below 0.25; L exceeds 1 by no
\* more than the number of leading samples below 0.25, one sample for each
\* further level; so every node ever made has a level in 1..MAX_LEVEL.
C21_LevelInRange ==
    /\ \A run \in 0 .. (MAX_LEVEL + MaxRun + 1) :
          LET L == get_random_level(run)
          IN  /\ 1 <= L
              /\ L <= MAX_LEVEL
              /\ L - 1 <= run
              /\ L < MAX_LEVEL => L - 1 = run
    /\ \A a \in DOMAIN nodes : nodes[a].level \in 1 .. MAX_LEVEL
    /\ (last.op = "insert" /\ last.drawn) =>
          nodes[last.node].level \in 1 .. MAX_LEVEL

\* an insert drew MAX_LEVEL for its node, next to a node of level 1
C21_Witness ==
    /\ last.op = "insert" /\ last.drawn
    /\ nodes[last.node].level = MAX_LEVEL
    /\ \E a \in NodesOf("a") : nodes[a].level = 1

\* C22: contains(v) has no side effects: a step that is a contains call
\* leaves every list object (head links, current_level, num_elements) and
\* every node as they were, and so the elements and size() too.
C22_ContainsChangesNothing ==
    [][last'.op = "contains" =>
          /\ lists' = lists
          /\ nodes' = nodes
          /\ Elements(nodes', lists'[last'.l]) = ElementsOf(last'.l)
          /\ size(lists'[last'.l]) = size(lists[last'.l])]_vars

\* contains found a value in a list of three elements whose current_level
\* is MAX_LEVEL
C22_Witness ==
    /\ last.op = "contains" /\ last.res
    /\ Len(ElementsOf("a")) = MaxVal
    /\ get_current_level(lists["a"]) = MAX_LEVEL
    /\ last.lvl = MAX_LEVEL

\* C23 as stated: a step that brings a node into being is an insert whose
\* duplicate check failed (a call of the client, or one the copy constructor
\* makes), and a step after which a node is held by no list any more is an
\* erase that returned true; no other step creates or discards a node.
C23_OnlyEraseDiscards ==
    [][/\ (DOMAIN nodes' \ DOMAIN nodes # {}) =>
             \/ last'.op = "insert" /\ last'.drawn
             \/ last'.op \in {"copy", "copy="}
       /\ (DOMAIN nodes \ DOMAIN nodes' # {}) =>
             (last'.op = "erase" /\ last'.res)]_vars

\* C23, amended: a node is created only by an insert call whose duplicate
\* check failed, made by the client (one node) or by the copy constructor,
\* once for each element of its source; a node is destroyed only by an erase
\* call that located it and unlinked it at every level it occupies, or
\* together with all the nodes of a list object that is assigned to or
\* destroyed; every other node stays, with its value and its level.
C23_NodeLifecycle ==
    [][LET Created == DOMAIN nodes' \ DOMAIN nodes
           Gone == DOMAIN nodes \ DOMAIN nodes'
           op == last'.op
           l == last'.l
           src == last'.src
       IN  CASE op = "insert" ->
                   /\ Gone = {}
                   /\ Cardinality(Created) = (IF last'.drawn THEN 1 ELSE 0)
                   /\ Created \subseteq HeldBy(nodes', lists'[l])
                   /\ \A a \in DOMAIN nodes :
                         /\ nodes'[a].value = nodes[a].value
                         /\ nodes'[a].level = nodes[a].level
             [] op = "erase" ->
                   /\ Created = {}
                   /\ Cardinality(Gone) = (IF last'.res THEN 1 ELSE 0)
                   /\ Gone \subseteq HeldBy(nodes, lists[l])
                   /\ \A a \in DOMAIN nodes' :
                         /\ nodes'[a].value = nodes[a].value
                         /\ nodes'[a].level = nodes[a].level
                         /\ LinksOf(nodes', a) \cap Gone = {}
                   /\ \A m \in Lists : HeadTargets(lists'[m]) \cap Gone = {}
             [] op \in {"copy=", "move="} /\ l = src ->
                   nodes' = nodes /\ lists' = lists
             [] op \in {"move", "move="} /\ l # src ->
                   /\ Created = {}
                   /\ Gone = HeldBy(nodes, lists[l])
                   /\ HeldBy(nodes', lists'[l]) = HeldBy(nodes, lists[src])
                   /\ \A a \in DOMAIN nodes' : nodes'[a] = nodes[a]
             [] op \in {"copy", "copy="} /\ l # src ->
                   /\ \A a \in HeldBy(nodes, lists[src]) :
                         a \in DOMAIN nodes' /\ nodes'[a] = nodes[a]
                   /\ HeldBy(nodes', lists'[src]) = HeldBy(nodes, lists[src])
                   /\ HeldBy(nodes', lists'[l]) \cap HeldBy(nodes, lists[src])
                         = {}
                   /\ Cardinality(HeldBy(nodes', lists'[l])) =
                         size(lists[src])
                   /\ DOMAIN nodes' =
                         HeldBy(nodes', lists'[l])
                            \cup HeldBy(nodes, lists[src])
             [] OTHER -> nodes' = nodes]_vars

\* a copy assignment has replaced the nodes of a list by copies of the two
\* nodes of another list, which keeps its own
C23_Witness ==
    /\ last.op = "copy=" /\ last.l # last.src
    /\ size(lists[last.src]) = MaxVal2
    /\ Cardinality(NodesOf(last.l)) = MaxVal2
    /\ NodesOf(last.l) \cap NodesOf(last.src) = {}
    /\ Cardinality(DOMAIN nodes) = 2 * MaxVal2

\* C24: every call terminates on every reachable list.  With a budget of one
\* step per node of the heap, the scan of insert, contains and erase for any
\* target comes to its end after at most size() steps of its while loops and
\* current_level + 1 <= MAX_LEVEL + 1 rounds of its for loop, and stops
\* where the three operations stop; a traversal from begin() reaches end()
\* after size() steps; the loops of == and < end after at most the lesser of
\* the two sizes; the loop of get_random_level runs at most MAX_LEVEL - 1
\* times, however many samples are below 0.25.
C24_EveryCallTerminates ==
    /\ \A run \in 0 .. (MAX_LEVEL + MaxRun + 1) :
          get_random_level(run) - 1 <= MAX_LEVEL - 1
    /\ \A l \in Lists :
          LET fuel == Cardinality(DOMAIN nodes)
              w == WalkFuel(nodes, begin(lists[l]), fuel)
          IN  /\ get_current_level(lists[l]) <= MAX_LEVEL
              /\ w.ok
              /\ w.steps = size(lists[l])
              /\ \A v \in 0 .. (MaxVal2 + 1) :
                    LET r == ScanFuel(Store(l), HEAD,
                                      get_current_level(lists[l]), v, fuel)
                    IN  /\ r.ok
                        /\ r.steps <= size(lists[l])
                        /\ r.current = InsertScan(Store(l), v).current
                        /\ r.current = EraseScan(Store(l), v).current
                        /\ r.current =
                              ContainsScan(Store(l), HEAD,
                                           get_current_level(lists[l]), v)
              /\ \A m \in Lists :
                    LET c == PairFuel(nodes, begin(lists[l]),
                                      begin(lists[m]), fuel)
                    IN  /\ c.ok
                        /\ c.steps = Min(size(lists[l]), size(lists[m]))

\* after an insert one list holds two elements under current_level
\* MAX_LEVEL, the other list one; a scan for a value above all elements
\* walks past every node
C24_Witness ==
    /\ last.op = "insert" /\ last.drawn
    /\ size(lists["a"]) = MaxVal2
    /\ get_current_level(lists["a"]) = MAX_LEVEL
    /\ size(lists["b"]) = 1
    /\ ScanFuel(Store("a"), HEAD, MAX_LEVEL, MaxVal2 + 1,
                Cardinality(DOMAIN nodes)).steps = MaxVal2

\* C25: a freshly constructed list has get_current_level() = 0, size() = 0,
\* empty() true, begin() == end(), cbegin() == cend(), and contains(v) false
\* for every v, whatever nodes other lists hold.
C25_FreshList ==
    LET Fresh(L) ==
            /\ get_current_level(L) = 0
            /\ size(L) = 0
            /\ empty(L)
            /\ iteratorEq(begin(L), end)
            /\ ~iteratorNe(begin(L), end)
            /\ iteratorEq(cbegin(L), cend)
            /\ ~iteratorNe(cbegin(L), cend)
            /\ \A v \in Values : ~contains([heap |-> nodes, list |-> L], v)
            /\ Elements(nodes, L) = <<>>
    IN  /\ Fresh(EmptyList)
        /\ last.op = "new" => \A l \in Lists : Fresh(lists[l])

\* the list objects have just been constructed
C25_Witness ==
    /\ last.op = "new"
    /\ \A l \in Lists : lists[l] = EmptyList /\ shadow[l] = {}
    /\ DOMAIN nodes = {}

\* C26: an iterator and a const_iterator, in either operand order, compare
\* equal iff they are on the same node or both at end: an iterator k steps
\* and a const_iterator j steps from the start of a list of n elements are
\* equal iff min(k, n) = min(j, n), and != is the opposite; end() == cend();
\* a const_iterator built from an iterator is on the iterator's node, and
\* after either of the two is advanced the other is where it was.
C26_MixedIteratorComparison ==
    /\ iteratorEq(end, cend)
    /\ iteratorEq(cend, end)
    /\ \A l \in Lists :
          LET n == size(lists[l])
          IN  \A k \in 0 .. (MaxVal + 1), j \in 0 .. (MaxVal + 1) :
                 LET it == Advanced(nodes, begin(lists[l]), k)
                     cit == Advanced(nodes, cbegin(lists[l]), j)
                     same == Min(k, n) = Min(j, n)
                     made == const_iterator(it)
                 IN  /\ iteratorEq(it, cit) <=> same
                     /\ iteratorEq(cit, it) <=> same
                     /\ iteratorNe(it, cit) <=> ~same
                     /\ iteratorNe(cit, it) <=> ~same
                     /\ (k >= n /\ j >= n) =>
                           iteratorEq(it, cend) /\ iteratorEq(cit, end)
                     /\ iteratorEq(it, made) /\ iteratorEq(made, it)
                     /\ k < n =>
                           /\ iteratorNe(increment(nodes, it), made)
                           /\ operatorStar(nodes, made).value =
                                 ElementsOf(l)[k + 1]
                           /\ iteratorNe(increment(nodes, made), it)
                           /\ iteratorEq(increment(nodes, made),
                                         increment(nodes, it))
    /\ last.op = "it==cit" =>
          /\ last.res <=> (iter.cur = last.node)
          /\ last.node = iter.ret
          /\ (iter.cur = end /\ last.node = end) => last.res

\* an iterator that it++ moved from the second to the third of three
\* elements was compared with a const_iterator built from the iterator that
\* it++ returned, and they were not equal
C26_Witness ==
    /\ last.op = "it==cit" /\ ~last.res
    /\ iter.steps = 2 /\ iter.cur # end /\ last.node # end
    /\ size(lists[iter.l]) = MaxVal

\* C27: for all lists a and b, a != b returns a value, and that value is the
\* negation of a == b: true if the lists are not equal, false otherwise.
C27_NotEqualIsNegation ==
    \A l \in Lists, m \in Lists :
        LET r == operatorNotEq(nodes, lists[l], lists[m])
        IN  /\ r.defined
            /\ r.value <=> ~operatorEq(nodes, lists[l], lists[m])

\* C28: for a target t the scan of insert, of contains and of erase stops at
\* each level i <= current_level on the last node of level i whose value is
\* below t, on the head if there is none; the node after the level-0
\* position is the first node whose value is t or more, if any; the three
\* operations reach the same positions, erase with its level-0 pass written
\* as a loop of its own, and record nothing above current_level.
C28_ScanPositions ==
    \A l \in Lists, t \in 0 .. (MaxVal + 1) :
        LET S == Store(l)
            top == get_current_level(lists[l])
            ins == InsertScan(S, t)
            ers == EraseScan(S, t)
            stop == [i \in 0 .. top |-> LastBelow(l, i, t)]
        IN  /\ \A i \in 0 .. top :
                  /\ ins.update[i] = stop[i]
                  /\ ers.update[i] = stop[i]
                  /\ Advance(S, IF i = top THEN HEAD ELSE stop[i + 1], i, t)
                        = stop[i]
            /\ \A i \in (top + 1) .. MAX_LEVEL :
                  ins.update[i] = NULL /\ ers.update[i] = NULL
            /\ ins.current = stop[0]
            /\ ers.current = stop[0]
            /\ ContainsScan(S, HEAD, top, t) = stop[0]
            /\ NextOf(S, ins.current, 0) = FirstAtLeast(l, t)

\* contains looked for 2 between a node of level 1 holding 1 and a node of
\* level MAX_LEVEL holding 3: the scan stays on the head at the upper levels
\* and steps onto the node of 1 at level 1
C28_Witness ==
    /\ last.op = "contains" /\ ~last.res /\ last.v = 2
    /\ ElementsOf("a") = <<1, 3>>
    /\ nodes[Lane("a", 0)[1]].level = 1
    /\ nodes[Lane("a", 0)[2]].level = MAX_LEVEL
    /\ LastBelow("a", MAX_LEVEL, 2) = HEAD
    /\ LastBelow("a", 0, 2) = Lane("a", 0)[1]

\* C29: when insert of an absent value draws a level L above current_level,
\* current_level becomes exactly L, and at every level i with old
\* current_level < i <= L the head's link points to the new node and the new
\* node's link is null; when L <= current_level, current_level stays.
C29_LevelExtension ==
    /\ \A l \in Lists, v \in Values, run \in Runs :
          ~Present(l, v) =>
             LET r == InsertOp(Store(l), v, run)
                 L == get_random_level(run)
                 old == get_current_level(lists[l])
                 n == r.created
             IN  /\ r.drawn
                 /\ n # NULL
                 /\ r.S.heap[n].level = L
                 /\ IF L > old
                    THEN /\ get_current_level(r.S.list) = L
                         /\ \A i \in (old + 1) .. L :
                               /\ r.S.list.head.next[i] = n
                               /\ r.S.heap[n].next[i] = NULL
                    ELSE get_current_level(r.S.list) = old
    /\ (last.op = "insert" /\ last.drawn) =>
          LET L == nodes[last.node].level
              now == get_current_level(lists[last.l])
          IN  IF L > last.lvl
              THEN /\ now = L
                   /\ \A i \in (last.lvl + 1) .. L :
                         /\ lists[last.l].head.next[i] = last.node
                         /\ nodes[last.node].next[i] = NULL
              ELSE now = last.lvl

\* an insert into a list whose current_level was 2 drew MAX_LEVEL
C29_Witness ==
    /\ last.op = "insert" /\ last.drawn
    /\ last.lvl = 2
    /\ nodes[last.node].level = MAX_LEVEL
    /\ get_current_level(lists["a"]) = MAX_LEVEL
    /\ Len(ElementsOf("a")) >= 2

\* C30: a successful erase changes exactly the links of the recorded
\* predecessors at the levels 0..victim.level, each retargeted to the
\* victim's successor at that level; afterwards no link of the head or of a
\* remaining node points to the victim; every link above victim.level and
\* every link of a node that is not a recorded predecessor is as it was.
C30_EraseRetargetsPredecessors ==
    /\ \A l \in Lists, v \in Values :
          Present(l, v) =>
             LET S == Store(l)
                 r == EraseOp(S, v)
                 update == EraseScan(S, v).update
                 victim == r.victim
                 k == nodes[victim].level
             IN  /\ r.res
                 /\ victim \in NodesOf(l)
                 /\ getValue(S, victim) = v
                 /\ \A i \in 0 .. k : NextOf(S, update[i], i) = victim
                 /\ \A p \in (DOMAIN nodes \ {victim}) \cup {HEAD} :
                       \A i \in LevelsOf(nodes, p) :
                          /\ NextOf(r.S, p, i) # victim
                          /\ NextOf(r.S, p, i) =
                                IF i <= k /\ p = update[i]
                                THEN NextOf(S, victim, i)
                                ELSE NextOf(S, p, i)
                 /\ \A p \in DOMAIN nodes :
                       /\ r.S.heap[p].value = nodes[p].value
                       /\ r.S.heap[p].level = nodes[p].level
    /\ (last.op = "erase" /\ last.res) =>
          /\ last.node \notin DOMAIN nodes
          /\ \A p \in DOMAIN nodes \cup {HEAD} :
                \A i \in LevelsOf(nodes, p) :
                   NextOf(Store(last.l), p, i) # last.node

\* 2 was erased from between a node of level 1 holding 1 and a node of level
\* MAX_LEVEL holding 3, which the node of 1 and the head now point to
C30_Witness ==
    /\ last.op = "erase" /\ last.res /\ last.v = 2
    /\ ElementsOf("a") = <<1, 3>>
    /\ nodes[Lane("a", 0)[1]].level = 1
    /\ nodes[Lane("a", 0)[2]].level = MAX_LEVEL
    /\ nodes[Lane("a", 0)[1]].next[1] = Lane("a", 0)[2]
    /\ lists["a"].head.next[2] = Lane("a", 0)[2]

\* C31: for insert of an absent value, running the per-level splices in
\* ascending order of the levels, as the code does, in descending order, or
\* in any other order leaves the same links at every level: the same store.
C31_SpliceOrderIrrelevant ==
    \A l \in Lists, v \in Values, run \in LevelRuns :
        ~Present(l, v) =>
           LET b == BeforeSplice(Store(l), v, run)
               asc == Splice(b.S, b.update, b.new_node, 0, b.level)
           IN  /\ InsertOp(Store(l), v, run).S =
                     [asc EXCEPT !.list.num_elements = @ + 1]
               /\ \A order \in SpliceOrders(b.level) :
                     SpliceIn(b.S, b.update, b.new_node, order, 1) = asc

\* an insert put a node of level 2 between two nodes, one of them of level
\* MAX_LEVEL: its three splices have different predecessors
C31_Witness ==
    /\ last.op = "insert" /\ last.drawn /\ last.v = 2
    /\ nodes[last.node].level = 2
    /\ ElementsOf("a") = <<1, 2, 3>>
    /\ \E a \in NodesOf("a") : nodes[a].level = MAX_LEVEL
    /\ lists["a"].head.next[2] = last.node

\* C32: in erase, unlinking at level i when the recorded predecessor's
\* level-i link is the victim (the identity test of the code) and unlinking
\* when the predecessor's level-i successor holds the target value leave the
\* same store, on every list reachable by insert and erase.
C32_IdentityOrValueTest ==
    \A l \in Lists, v \in Values :
        Present(l, v) =>
           LET S == Store(l)
               scan == EraseScan(S, v)
               node_to_delete == NextOf(S, scan.current, 0)
               byValue == UnlinkToValue(S, scan.update, node_to_delete, 0)
           IN  /\ getValue(S, node_to_delete) = v
               /\ Unlink(S, scan.update, node_to_delete, 0) = byValue
               /\ EraseOp(S, v).S =
                     ShrinkLevel([byValue EXCEPT !.list.num_elements = @ - 1])
               /\ \A i \in 0 .. nodes[node_to_delete].level :
                     LET n == NextOf(S, scan.update[i], i)
                     IN  (n = node_to_delete) <=>
                            (n # NULL /\ getValue(S, n) = v)

\* the last of three elements, in a node of level MAX_LEVEL, was erased
C32_Witness ==
    /\ last.op = "erase" /\ last.res /\ last.v = MaxVal
    /\ ElementsOf("a") = <<1, 2>>
    /\ last.lvl = MAX_LEVEL
    /\ get_current_level(lists["a"]) < MAX_LEVEL

\* C33: move construction and move assignment hand over the source's
\* structure as it is: the destination afterwards has the current_level the
\* source had, and holds the very nodes the source held, each with the
\* level, the value and the links it had, reached from the head by the same
\* links at every level; the nodes the destination held before are gone.
C33_MoveKeepsStructure ==
    LET Same(r, dst, src) ==
            LET ls == [lists EXCEPT ![dst] = r.this, ![src] = r.other]
                h == Release(nodes, ls)
            IN  /\ get_current_level(r.this) = get_current_level(lists[src])
                /\ r.this.head = lists[src].head
                /\ HeldBy(h, r.this) = NodesOf(src)
                /\ NodesKept(src, h)
                /\ NodesOf(dst) \cap DOMAIN h = {}
                /\ View([heap |-> h, list |-> r.this]) = View(Store(src))
    IN  /\ \A dst \in Lists, src \in Lists :
              dst # src =>
                 /\ Same(MoveConstructOp(lists[src]), dst, src)
                 /\ Same(MoveAssignOp(lists[dst], lists[src]), dst, src)
        /\ (last.op \in {"move", "move="} /\ last.l # last.src) =>
              /\ NodesOf(last.src) = {}
              /\ DOMAIN nodes = NodesOf(last.l)
              /\ get_current_level(lists[last.l]) = TallestOf(last.l)

\* a move assignment handed over a node of level 1 and a node of level
\* MAX_LEVEL
C33_Witness ==
    /\ last.op = "move=" /\ last.l # last.src
    /\ Len(ElementsOf(last.l)) = MaxVal2
    /\ get_current_level(lists[last.l]) = MAX_LEVEL
    /\ \E a \in NodesOf(last.l) : nodes[a].level = 1
    /\ DOMAIN nodes = NodesOf(last.l)

\* C34: in every reachable state every access next[i] that insert, contains
\* and erase make is within the link array of its node (i <= node.level,
\* i <= MAX_LEVEL for the head); every update[i] that the splice or the
\* unlink loop dereferences was set to the head or a node by the scan or the
\* level extension; current_level <= MAX_LEVEL; and the countdown of erase
\* (i >= 1; --i) ends at 0 and is never decremented below it.
C34_AccessesInRange ==
    \A l \in Lists :
        LET S == Store(l)
            top == get_current_level(lists[l])
        IN  /\ top <= MAX_LEVEL
            /\ DOMAIN lists[l].head.next = 0 .. MAX_LEVEL
            /\ \A a \in NodesOf(l) :
                  /\ DOMAIN nodes[a].next = 0 .. nodes[a].level
                  /\ nodes[a].level <= MAX_LEVEL
            /\ LET c == Countdown(top)
               IN  /\ Len(c) = top + 1
                   /\ \A j \in DOMAIN c : c[j] = top + 1 - j
            /\ InRange(S, HEAD, top)
            /\ \A t \in 0 .. (MaxVal + 1) :
                  LET sc == ScanSafe(S, HEAD, top, t, NoUpdate)
                  IN  /\ sc.ok
                      /\ InRange(S, sc.current, 0)
                      /\ \A i \in 0 .. top : sc.update[i] # NULL
                      /\ sc.update = InsertScan(S, t).update
                      /\ sc.update = EraseScan(S, t).update
                      /\ sc.current = ContainsScan(S, HEAD, top, t)
            /\ \A v \in Values, run \in LevelRuns :
                  ~Present(l, v) =>
                     LET b == BeforeSplice(S, v, run)
                     IN  /\ b.level <= MAX_LEVEL
                         /\ b.S.list.current_level <= MAX_LEVEL
                         /\ \A i \in 0 .. b.level :
                               /\ i \in DOMAIN b.update
                               /\ b.update[i] # NULL
                               /\ InRange(b.S, b.update[i], i)
                               /\ InRange(b.S, b.new_node, i)
            /\ \A v \in Values :
                  Present(l, v) =>
                     LET scan == EraseScan(S, v)
                         node_to_delete == NextOf(S, scan.current, 0)
                         done == EraseOp(S, v).S
                     IN  /\ node_to_delete \in DOMAIN nodes
                         /\ \A i \in 0 .. nodes[node_to_delete].level :
                               /\ scan.update[i] # NULL
                               /\ InRange(S, scan.update[i], i)
                               /\ InRange(S, node_to_delete, i)
                         /\ InRange(done, HEAD, get_current_level(done.list))

\* after an erase the list holds a node of level 1 before a node of level
\* MAX_LEVEL: a scan for a value above both comes down from level MAX_LEVEL
\* on the second node's links and never touches the first node above level 1
C34_Witness ==
    /\ last.op = "erase" /\ last.res /\ last.v = 1
    /\ ElementsOf("a") = <<2, 3>>
    /\ nodes[Lane("a", 0)[1]].level = 1
    /\ nodes[Lane("a", 0)[2]].level = MAX_LEVEL
    /\ ScanSafe(Store("a"), HEAD, MAX_LEVEL, MaxVal + 1, NoUpdate).current
          = Lane("a", 0)[2]

\* C35: what a client observes does not depend on the levels drawn.  Two
\* lists whose histories agree on the values inserted and not erased, with
\* whatever levels, look the same (size(), iteration sequence, contains),
\* and any MaxCalls further insert, erase and contains calls, made on both
\* with any two choices of level draws, return the same values and leave the
\* same size(), iteration sequence and contains results after every call.
C35_DrawsNotObservable ==
    \A l \in {"a"}, m \in Lists \ {"a"} :
        shadow[l] = shadow[m] =>
           /\ Seen(Store(l)) = Seen(Store(m))
           /\ \A cs \in [1 .. MaxCalls -> Shapes] :
                 LET ref == Trace(Store(l), Others(l), cs,
                                  [j \in 1 .. MaxCalls |-> 0], 1)
                 IN  \A runs \in [1 .. MaxCalls -> RunsAll] :
                        /\ Trace(Store(l), Others(l), cs, runs, 1) = ref
                        /\ Trace(Store(m), Others(m), cs, runs, 1) = ref

\* two lists hold the same two values, one in nodes of level 1 alone, the
\* other with a node of level MAX_LEVEL
C35_Witness ==
    /\ last.op = "insert" /\ last.drawn
    /\ shadow["a"] = Values2 /\ shadow["b"] = Values2
    /\ \A a \in NodesOf("a") : nodes[a].level = 1
    /\ \E a \in NodesOf("b") : nodes[a].level = MAX_LEVEL
    /\ get_current_level(lists["a"]) # get_current_level(lists["b"])

\* C36: on a list that does not hold v, insert(v) followed at once by
\* erase(v) gives back the state before the two calls, whatever level is
\* drawn for v: erase returns true, and the element sequence, size(),
\* current_level, the head's links and every node with its links at every
\* level are as before.
C36_InsertThenEraseRestores ==
    \A v \in Values \ shadow["a"], run \in Runs :
        LET S == Store("a")
            ins == CallOn(S, Others("a"), [op |-> "insert", v |-> v, run |-> run])
            era == CallOn(ins.S, Others("a"), [op |-> "erase", v |-> v, run |-> 0])
        IN  /\ ~ contains(S, v)
            /\ contains(ins.S, v)
            /\ size(ins.S.list) = size(S.list) + 1
            /\ era.res
            /\ Elements(era.S.heap, era.S.list) = Elements(S.heap, S.list)
            /\ size(era.S.list) = size(S.list)
            /\ get_current_level(era.S.list) = get_current_level(S.list)
            /\ era.S.list.head = S.list.head
            /\ era.S.heap = S.heap
            /\ era.S = S

\* an erase has just taken out the one node of level MAX_LEVEL of a list
\* that holds a lower node still, and an insert of the erased value at level
\* MAX_LEVEL raises current_level again
C36_Witness ==
    /\ last.op = "erase" /\ last.res /\ last.lvl = MAX_LEVEL
    /\ last.v \notin shadow["a"]
    /\ size(lists["a"]) >= 1
    /\ get_current_level(lists["a"]) < MAX_LEVEL
    /\ get_current_level(InsertOp(Store("a"), last.v,
                                  MAX_LEVEL - 1).S.list) = MAX_LEVEL

\* C37: for any two lists a and b exactly one of a < b, a == b, b < a holds:
\* a < a is never true, a < b and b < a are never both true, and a == b
\* holds iff neither a < b nor b < a.
C37_Trichotomy ==
    \A l \in Lists, m \in Lists :
        LET lt == operatorLess(nodes, lists[l], lists[m])
            eq == operatorEq(nodes, lists[l], lists[m])
            gt == operatorLess(nodes, lists[m], lists[l])
        IN  /\ Cardinality({x \in {"lt", "eq", "gt"} :
                               \/ x = "lt" /\ lt
                               \/ x = "eq" /\ eq
                               \/ x = "gt" /\ gt}) = 1
            /\ ~ operatorLess(nodes, lists[l], lists[l])
            /\ ~ (lt /\ gt)
            /\ eq <=> (~ lt /\ ~ gt)
            /\ (last.op = "==" /\ last.l = l /\ last.src = m) => (last.res <=> eq)
            /\ (last.op = "<" /\ last.l = l /\ last.src = m) => (last.res <=> lt)

\* == returned false for two lists of the same size that differ in the first
\* element alone: the first is less than the second, the second is not less
\* than the first
C37_Witness ==
    /\ last.op = "==" /\ ~ last.res /\ last.l # last.src
    /\ ElementsOf(last.l) = <<1, 3>>
    /\ ElementsOf(last.src) = <<2, 3>>
    /\ operatorLess(nodes, lists[last.l], lists[last.src])
    /\ ~ operatorLess(nodes, lists[last.src], lists[last.l])

\* C38: in every state get_current_level() is 0 iff the list is empty, every
\* stored node has level >= 1, every head link at a level above
\* current_level is null, and the head link at current_level of a list that
\* is not empty is not null.
C38_CurrentLevelAndHead ==
    \A l \in Lists :
        LET L == lists[l]
        IN  /\ get_current_level(L) = 0 <=> empty(L)
            /\ get_current_level(L) = 0 <=> Elements(nodes, L) = <<>>
            /\ \A a \in NodesOf(l) : nodes[a].level >= 1
            /\ \A i \in (get_current_level(L) + 1) .. MAX_LEVEL :
                   L.head.next[i] = NULL
            /\ ~ empty(L) => L.head.next[get_current_level(L)] # NULL

\* an erase has emptied list b, whose current_level is back at 0, while list
\* a holds a node of level MAX_LEVEL and one of level 1
C38_Witness ==
    /\ last.op = "erase" /\ last.res /\ last.l = "b"
    /\ empty(lists["b"]) /\ get_current_level(lists["b"]) = 0
    /\ size(lists["a"]) = 2
    /\ get_current_level(lists["a"]) = MAX_LEVEL
    /\ \E x \in NodesOf("a") : nodes[x].level = 1

\* C39: in erase of a present value, for every level i in 0..victim.level
\* the recorded predecessor update[i] has its level-i link pointing to the
\* victim when the unlink loop reaches level i, so the test
\* update[i]->next[i] == node_to_delete is true in every iteration.
C39_UnlinkGuardAlwaysTrue ==
    \A v \in Values :
        Present("a", v) =>
           LET S == Store("a")
               scan == EraseScan(S, v)
               node_to_delete == NextOf(S, scan.current, 0)
               guards == UnlinkGuards(S, scan.update, node_to_delete, 0)
           IN  /\ FoundAfter(S, scan.current, v)
               /\ Len(guards) = S.heap[node_to_delete].level + 1
               /\ \A j \in DOMAIN guards : guards[j]
               /\ \A i \in 0 .. S.heap[node_to_delete].level :
                      /\ scan.update[i] # NULL
                      /\ NextOf(S, scan.update[i], i) = node_to_delete

\* the list holds a node of level MAX_LEVEL behind two lower nodes, at least
\* one of level 2, after an erase: the predecessors of the tall node differ
\* from level to level
C39_Witness ==
    /\ last.op = "erase" /\ last.res
    /\ Len(Lane("a", 0)) = 2
    /\ nodes[Lane("a", 0)[1]].level = 2
    /\ nodes[Lane("a", 0)[2]].level = MAX_LEVEL
    /\ EraseScan(Store("a"), MaxVal).update[0] = Lane("a", 0)[1]
    /\ EraseScan(Store("a"), MaxVal).update[MAX_LEVEL] = HEAD
    /\ Len(UnlinkGuards(Store("a"), EraseScan(Store("a"), MaxVal).update,
                         Lane("a", 0)[2], 0)) = MAX_LEVEL + 1

====
